---- MODULE Spec2Model ----
(***************************************************************************)
(* Knowledge base curator: profiles and the role policy, row level         *)
(* security of the hosted database, and the chunk review pipeline.         *)
(*                                                                         *)
(* Tables are sets (or sequences) of rows, so that the constraints the     *)
(* schema declares (primary key, NOT NULL, CHECK) are enforced by the      *)
(* statements that write them and not by the shape of the data.            *)
(* Timestamps (created_at, updated_at, reviewed_at, approved_date) and     *)
(* free text that no decision reads (chunk_text, filename) are left out.   *)
(***************************************************************************)
EXTENDS Integers, Sequences, FiniteSets, TLC

\* ------------------------------------------------------------------------
\* Universe of the model
\* ------------------------------------------------------------------------

\* SQL NULL / JavaScript null and undefined
NULL == "NULL"

\* identities of auth.users ("a1" is the first admin of the installation)
Ids == {"a1", "u2"}

\* a request without a session: supabase.auth.getUser() yields no user
Anon == "anon"

Callers == Ids \cup {Anon}

\* profiles.role CHECK (role IN ('user', 'curator', 'admin'))
Roles == {"user", "curator", "admin"}

\* values of raw_user_meta_data->>'full_name' and of profiles.full_name
Names == {"", "Ann"}

\* value of auth.users.email when there is one
Mail == "m@x"

\* fetchProfile calls of one identity that may be in flight at once
MaxInFlight == 2

\* chunks of the document under review (documents.total_chunks)
MaxChunks == 2

\* review requests that reach approveChunk / rejectChunk in one behaviour
MaxCalls == 2

DocIds == {"d1"}

ChunkIds == 1..MaxChunks

\* body.action of a review request; "skip" stands for any other value
Actions == {"approve", "reject", "skip"}

\* settings.ai_provider.provider
Providers == {"gemini", "openai"}

VARIABLES
  authUsers,     \* auth.users: set of rows [id, email, meta_name]
  profiles,      \* profiles: set of rows [id, email, full_name, role, is_active]
  insertOwn,     \* TRUE when the policy users_insert_own_profile is installed
  pgLog,         \* server log: ids named by RAISE LOG in handle_new_user
  fetchPc,       \* per client: position inside fetchProfile
  documents,     \* documents: function id -> row
  chunks,        \* document_chunks: function id -> row
  kb_vectors,    \* kb_vectors: sequence of rows (insertion order)
  settings,      \* settings: function key -> value
  nCalls,        \* number of review requests served (bounded)
  inflight,      \* requests in progress: function slot -> record with its position
  curator,       \* state of the useCurator hook of one browser
  auth,          \* state of the AuthProvider of one browser
  last           \* the last operation: [op, actor, target, arg, ret, ret2]

vars == <<authUsers, profiles, insertOwn, pgLog, fetchPc, documents, chunks,
          kb_vectors, settings, nCalls, inflight, curator, auth, last>>

profileVars == <<authUsers, profiles, insertOwn, pgLog, fetchPc>>
reviewVars == <<documents, chunks, kb_vectors, settings, nCalls>>

clientVars == <<inflight, curator, auth>>

Op(op, actor, target, arg, ret, ret2) ==
  [op |-> op, actor |-> actor, target |-> target, arg |-> arg, ret |-> ret, ret2 |-> ret2]

\* useState<DocumentStats>({total: 0, approved: 0, rejected: 0, pending: 0, filtered: 0})
ZeroStats == [total |-> 0, approved |-> 0, rejected |-> 0, pending |-> 0, filtered |-> 0]

\* useCurator after its first render: chunks = [], currentChunkIndex = 0,
\* stats all zero. chunksLength is chunks.length; renderedIndex and
\* renderedLength are currentChunkIndex and chunks.length as the callbacks
\* of the last render captured them; refreshing tells whether a
\* refreshChunks call is waiting for its data, refreshIndex the
\* currentChunkIndex that call captured; loaded tells whether documentId
\* is set; sinceRender counts the state updates the next render will show.
InitialCurator ==
  [loaded |-> FALSE, chunksLength |-> 0, currentChunkIndex |-> 0, stats |-> ZeroStats,
   renderedIndex |-> 0, renderedLength |-> 0, refreshing |-> FALSE, refreshIndex |-> 0,
   sinceRender |-> 0]

\* No request is in progress and the hooks are as their first render left
\* them.
ClientsIdle ==
  /\ inflight = <<>>
  /\ curator = InitialCurator
  /\ auth = <<>>

\* ------------------------------------------------------------------------
\* profiles table
\* ------------------------------------------------------------------------

NoProfile == [id |-> NULL, email |-> NULL, full_name |-> NULL, role |-> NULL, is_active |-> FALSE]

\* SELECT * FROM profiles WHERE id = uid, without row level security
RowsOf(table, uid) == {r \in table : r.id = uid}

ProfileOf(table, uid) ==
  IF RowsOf(table, uid) = {} THEN NoProfile ELSE CHOOSE r \in RowsOf(table, uid) : TRUE

\* InsertProfile without the primary key on id
InsertProfile_NoPrimaryKey(table, row) ==
  IF row.email = NULL THEN [table |-> table, error |-> "not_null"]
  ELSE IF row.role \notin Roles THEN [table |-> table, error |-> "check"]
  ELSE [table |-> table \cup {row}, error |-> NULL]

\* INSERT INTO profiles: email TEXT NOT NULL, id PRIMARY KEY, role CHECK.
\* Returns the new table and the error, if any.
InsertProfile(table, row) ==
  IF row.email = NULL THEN [table |-> table, error |-> "not_null"]
  ELSE IF row.role \notin Roles THEN [table |-> table, error |-> "check"]
  ELSE IF RowsOf(table, row.id) # {} THEN [table |-> table, error |-> "duplicate_key"]
  ELSE [table |-> table \cup {row}, error |-> NULL]

\* INSERT ... ON CONFLICT (id) DO NOTHING
InsertProfileOnConflictDoNothing(table, row) ==
  IF row.email # NULL /\ row.role \in Roles /\ RowsOf(table, row.id) # {}
  THEN [table |-> table, error |-> NULL]
  ELSE InsertProfile(table, row)

\* ------------------------------------------------------------------------
\* Role policy
\* ------------------------------------------------------------------------

\* has_role without "AND is_active = true"
has_role_IgnoresActive(table, user_id, required_role) ==
  LET rows == RowsOf(table, user_id)
      user_role == IF rows = {} THEN NULL ELSE (CHOOSE r \in rows : TRUE).role
  IN IF user_role = NULL THEN FALSE
     ELSE IF user_role = "admin" THEN TRUE
     ELSE IF user_role = "curator" /\ required_role \in {"curator", "user"} THEN TRUE
     ELSE IF user_role = "user" /\ required_role = "user" THEN TRUE
     ELSE FALSE

\* has_role(user_id, required_role), SECURITY DEFINER: reads profiles directly
has_role(table, user_id, required_role) ==
  LET active == {r \in RowsOf(table, user_id) : r.is_active}
      user_role == IF active = {} THEN NULL ELSE (CHOOSE r \in active : TRUE).role
  IN IF user_role = NULL THEN FALSE
     ELSE IF user_role = "admin" THEN TRUE
     ELSE IF user_role = "curator" /\ required_role \in {"curator", "user"} THEN TRUE
     ELSE IF user_role = "user" /\ required_role = "user" THEN TRUE
     ELSE FALSE

is_curator_or_admin(table, user_id) == has_role(table, user_id, "curator")

is_admin(table, user_id) ==
  \E r \in table : r.id = user_id /\ r.role = "admin" /\ r.is_active

\* Row level security of profiles.
\* SELECT: "Users can view own profile", "Curators can view all profiles"
ProfilesSelectPolicy(table, uid, row) ==
  uid # Anon /\ (uid = row.id \/ is_curator_or_admin(table, uid))

\* UPDATE, USING: "Users can update own profile", "Admins can update any profile"
ProfilesUpdateUsing(table, uid, row) ==
  uid # Anon /\ (uid = row.id \/ is_admin(table, uid))

\* UPDATE, WITH CHECK on the new row; the admin policy has no WITH CHECK, so
\* its USING expression is applied to the new row, evaluated on the table as
\* it stands after the update
ProfilesUpdateCheck(newTable, uid, newRow) ==
  uid = newRow.id \/ is_admin(newTable, uid)

\* INSERT: no policy in the initial schema; "users_insert_own_profile" of the
\* policy fix allows a row with id = auth.uid()
ProfilesInsertCheck(uid, newRow) ==
  insertOwn /\ uid # Anon /\ uid = newRow.id

\* the payloads of .update({...}) on profiles
SetFullName(name, row) == [row EXCEPT !.full_name = name]
SetRole(role, row) == [row EXCEPT !.role = role]
SetActive(flag, row) == [row EXCEPT !.is_active = flag]

\* SET field = value on one row
SetField(field, value, row) ==
  IF field = "full_name" THEN SetFullName(value, row)
  ELSE IF field = "role" THEN SetRole(value, row)
  ELSE SetActive(value, row)

\* UPDATE profiles SET field = value WHERE id = target, issued by uid under row
\* level security. Rows the USING clause hides are not updated (no error); a
\* new row that fails WITH CHECK or the role CHECK is an error and nothing is
\* written.
UpdateProfiles(table, uid, target, field, value) ==
  LET f(r) == SetField(field, value, r)
      hit == {r \in RowsOf(table, target) : ProfilesUpdateUsing(table, uid, r)}
      newTable == (table \ hit) \cup {f(r) : r \in hit}
  IN IF \E r \in hit : f(r).role \notin Roles
     THEN [table |-> table, error |-> "check"]
     ELSE IF \E r \in hit : ~ProfilesUpdateCheck(newTable, uid, f(r))
     THEN [table |-> table, error |-> "rls"]
     ELSE [table |-> newTable, error |-> NULL]

\* getCurrentUser(): the session's user, then its profile row read under
\* row level security; null without a session or without a visible row
getCurrentUser(table, caller) ==
  IF caller = Anon \/ caller \notin {u.id : u \in authUsers} THEN NoProfile
  ELSE LET visible == {r \in RowsOf(table, caller) : ProfilesSelectPolicy(table, caller, r)}
       IN IF Cardinality(visible) # 1 THEN NoProfile ELSE CHOOSE r \in visible : TRUE

\* hasRole without the "!user.is_active" test
hasRole_IgnoresActive(table, caller, requiredRole) ==
  LET user == getCurrentUser(table, caller)
  IN IF user = NoProfile THEN FALSE
     ELSE IF user.role = "admin" THEN TRUE
     ELSE IF user.role = "curator" /\ (requiredRole = "curator" \/ requiredRole = "user") THEN TRUE
     ELSE IF user.role = "user" /\ requiredRole = "user" THEN TRUE
     ELSE FALSE

\* hasRole(requiredRole) of lib/auth/helpers.ts for the calling session
hasRole(table, caller, requiredRole) ==
  LET user == getCurrentUser(table, caller)
  IN IF user = NoProfile \/ ~user.is_active THEN FALSE
     ELSE IF user.role = "admin" THEN TRUE
     ELSE IF user.role = "curator" /\ (requiredRole = "curator" \/ requiredRole = "user") THEN TRUE
     ELSE IF user.role = "user" /\ requiredRole = "user" THEN TRUE
     ELSE FALSE

\* ------------------------------------------------------------------------
\* Registration and profile creation
\* ------------------------------------------------------------------------

RegisteredIds == {u.id : u \in authUsers}

AuthUser(uid) == CHOOSE u \in authUsers : u.id = uid

\* COALESCE(raw_user_meta_data->>'full_name', raw_user_meta_data->>'name', '')
\* and user_metadata?.full_name || user_metadata?.name || ''
MetaFullName(u) == IF u.meta_name = NULL THEN "" ELSE u.meta_name

\* handle_new_user without the EXCEPTION WHEN OTHERS block
handle_new_user_NoExceptionHandler(table, log, newUser) ==
  LET ins == InsertProfileOnConflictDoNothing(table,
               [id |-> newUser.id, email |-> newUser.email, full_name |-> MetaFullName(newUser),
                role |-> "user", is_active |-> TRUE])
  IN IF ins.error = NULL
     THEN [table |-> ins.table, log |-> log, raised |-> FALSE]
     ELSE [table |-> table, log |-> log, raised |-> TRUE]

\* handle_new_user(), the AFTER INSERT trigger on auth.users. `raised` tells
\* whether an exception leaves the function (it would abort the INSERT into
\* auth.users); EXCEPTION WHEN OTHERS logs it and returns NEW instead.
handle_new_user(table, log, newUser) ==
  LET ins == InsertProfileOnConflictDoNothing(table,
               [id |-> newUser.id, email |-> newUser.email, full_name |-> MetaFullName(newUser),
                role |-> "user", is_active |-> TRUE])
  IN IF ins.error = NULL
     THEN [table |-> ins.table, log |-> log, raised |-> FALSE]
     ELSE [table |-> table, log |-> log \cup {newUser.id}, raised |-> FALSE]

\* Registration of an identity: INSERT INTO auth.users, with the trigger
\* on_auth_user_created in the same transaction.
SignUp(id, email, meta) ==
  /\ id \notin RegisteredIds
  /\ LET newUser == [id |-> id, email |-> email, meta_name |-> meta]
         t == handle_new_user(profiles, pgLog, newUser)
     IN IF t.raised
        THEN /\ UNCHANGED <<authUsers, profiles>>
             /\ pgLog' = t.log
             /\ last' = Op("signUp", id, id, email, "error", NULL)
        ELSE /\ authUsers' = authUsers \cup {newUser}
             /\ profiles' = t.table
             /\ pgLog' = t.log
             /\ last' = Op("signUp", id, id, email, "ok", NULL)
  /\ UNCHANGED <<insertOwn, fetchPc>>
  /\ UNCHANGED reviewVars
  /\ UNCHANGED clientVars

\* fetchProfile(userId) of the AuthProvider, first half: the select of the
\* own row with .single(). A row is returned as it is; PGRST116 (no rows)
\* sends the client on to the creation fallback.
FetchProfileSelect(u) ==
  /\ u \in RegisteredIds
  /\ LET visible == {r \in RowsOf(profiles, u) : ProfilesSelectPolicy(profiles, u, r)}
     IN IF visible # {}
        THEN /\ last' = Op("fetchProfile", u, u, NULL, "found", (CHOOSE r \in visible : TRUE).role)
             /\ UNCHANGED fetchPc
        ELSE /\ fetchPc[u] < MaxInFlight
             /\ fetchPc' = [fetchPc EXCEPT ![u] = @ + 1]
             /\ last' = Op("fetchProfile", u, u, NULL, "PGRST116", NULL)
  /\ UNCHANGED <<authUsers, profiles, insertOwn, pgLog>>
  /\ UNCHANGED reviewVars
  /\ UNCHANGED clientVars

\* fetchProfile, second half: getUser(), then the insert of a default profile
\* under row level security; an insert error makes fetchProfile return null.
FetchProfileCreate(u) ==
  /\ fetchPc[u] > 0
  /\ LET user == AuthUser(u)
         profileData == [id |-> user.id,
                         email |-> IF user.email = NULL THEN "" ELSE user.email,
                         full_name |-> MetaFullName(user),
                         role |-> "user", is_active |-> TRUE]
         ins == IF ProfilesInsertCheck(u, profileData)
                THEN InsertProfile(profiles, profileData)
                ELSE [table |-> profiles, error |-> "rls"]
     IN /\ profiles' = ins.table
        /\ last' = Op("fetchProfile", u, u, NULL,
                      IF ins.error = NULL THEN "created" ELSE "null", ins.error)
  /\ fetchPc' = [fetchPc EXCEPT ![u] = @ - 1]
  /\ UNCHANGED <<authUsers, insertOwn, pgLog>>
  /\ UNCHANGED reviewVars
  /\ UNCHANGED clientVars

\* ------------------------------------------------------------------------
\* Profile updates
\* ------------------------------------------------------------------------

\* updateProfile(userId, {full_name})
updateProfile(caller, userId, name) ==
  /\ LET upd == UpdateProfiles(profiles, caller, userId, "full_name", name)
     IN /\ profiles' = upd.table
        /\ last' = Op("updateProfile", caller, userId, name, upd.error = NULL, NULL)
  /\ UNCHANGED <<authUsers, insertOwn, pgLog, fetchPc>>
  /\ UNCHANGED reviewVars
  /\ UNCHANGED clientVars

\* An UPDATE of the caller's own profiles row sent from the browser client:
\* whatever the policies "Users can update own profile" / "Admins can update
\* any profile" accept is written. field is "role" or "is_active".
UpdateOwnRow(caller, field, value) ==
  /\ caller \in RegisteredIds
  /\ LET upd == UpdateProfiles(profiles, caller, caller, field, value)
     IN /\ profiles' = upd.table
        /\ last' = Op("updateOwnRow", caller, caller, <<field, value>>, upd.error = NULL, NULL)
  /\ UNCHANGED <<authUsers, insertOwn, pgLog, fetchPc>>
  /\ UNCHANGED reviewVars
  /\ UNCHANGED clientVars

\* updateUserRole without the "Cannot change your own role" guard
updateUserRole_NoSelfGuard(caller, userId, newRole) ==
  /\ LET currentUser == getCurrentUser(profiles, caller)
         upd == UpdateProfiles(profiles, caller, userId, "role", newRole)
     IN IF currentUser.role # "admin"
        THEN /\ UNCHANGED profiles
             /\ last' = Op("updateUserRole", caller, userId, newRole, FALSE, "Only admins can change user roles")
        ELSE /\ profiles' = upd.table
             /\ last' = Op("updateUserRole", caller, userId, newRole, upd.error = NULL, upd.error)
  /\ UNCHANGED <<authUsers, insertOwn, pgLog, fetchPc>>
  /\ UNCHANGED reviewVars
  /\ UNCHANGED clientVars

\* updateUserRole(userId, newRole)
updateUserRole(caller, userId, newRole) ==
  /\ LET currentUser == getCurrentUser(profiles, caller)
         upd == UpdateProfiles(profiles, caller, userId, "role", newRole)
     IN IF currentUser.role # "admin"
        THEN /\ UNCHANGED profiles
             /\ last' = Op("updateUserRole", caller, userId, newRole, FALSE, "Only admins can change user roles")
        ELSE IF currentUser.id = userId
        THEN /\ UNCHANGED profiles
             /\ last' = Op("updateUserRole", caller, userId, newRole, FALSE, "Cannot change your own role")
        ELSE /\ profiles' = upd.table
             /\ last' = Op("updateUserRole", caller, userId, newRole, upd.error = NULL, upd.error)
  /\ UNCHANGED <<authUsers, insertOwn, pgLog, fetchPc>>
  /\ UNCHANGED reviewVars
  /\ UNCHANGED clientVars

\* setUserActiveStatus(userId, isActive)
setUserActiveStatus(caller, userId, isActive) ==
  /\ LET currentUser == getCurrentUser(profiles, caller)
         upd == UpdateProfiles(profiles, caller, userId, "is_active", isActive)
     IN IF currentUser.role # "admin"
        THEN /\ UNCHANGED profiles
             /\ last' = Op("setUserActiveStatus", caller, userId, isActive, FALSE, "Only admins can change user status")
        ELSE IF currentUser.id = userId /\ ~isActive
        THEN /\ UNCHANGED profiles
             /\ last' = Op("setUserActiveStatus", caller, userId, isActive, FALSE, "Cannot deactivate your own account")
        ELSE /\ profiles' = upd.table
             /\ last' = Op("setUserActiveStatus", caller, userId, isActive, upd.error = NULL, upd.error)
  /\ UNCHANGED <<authUsers, insertOwn, pgLog, fetchPc>>
  /\ UNCHANGED reviewVars
  /\ UNCHANGED clientVars

\* A role check by the calling session: hasRole() on the server, and
\* has_role(auth.uid(), required_role) in the database
CheckRole(caller, requiredRole) ==
  /\ last' = Op("hasRole", caller, NULL, requiredRole,
                hasRole(profiles, caller, requiredRole),
                has_role(profiles, caller, requiredRole))
  /\ UNCHANGED profileVars
  /\ UNCHANGED reviewVars
  /\ UNCHANGED clientVars

\* ------------------------------------------------------------------------
\* Specification of the profile store
\* ------------------------------------------------------------------------

NoOp == Op("init", NULL, NULL, NULL, NULL, NULL)

\* The installation after setup: the schema is migrated, the first account
\* is registered and promoted to admin by hand (README, "Default User
\* Creation"); the policy fix script has been run or not.
Init ==
  /\ authUsers = {[id |-> "a1", email |-> Mail, meta_name |-> NULL]}
  /\ profiles = {[id |-> "a1", email |-> Mail, full_name |-> "", role |-> "admin", is_active |-> TRUE]}
  /\ insertOwn \in BOOLEAN
  /\ pgLog = {}
  /\ fetchPc = [u \in Ids |-> 0]
  /\ documents = <<>>
  /\ chunks = <<>>
  /\ kb_vectors = <<>>
  /\ settings = [ai_provider |-> "gemini"]
  /\ nCalls = 0
  /\ last = NoOp
  /\ ClientsIdle

Next ==
  \/ \E id \in Ids, email \in {Mail, NULL}, meta \in {NULL, "Ann"} : SignUp(id, email, meta)
  \/ \E u \in Ids : FetchProfileSelect(u)
  \/ \E u \in Ids : FetchProfileCreate(u)
  \/ \E c \in Callers, t \in Ids, n \in Names : updateProfile(c, t, n)
  \/ \E c \in Ids, r \in Roles : UpdateOwnRow(c, "role", r)
  \/ \E c \in Ids, b \in BOOLEAN : UpdateOwnRow(c, "is_active", b)
  \/ \E c \in Callers, t \in Ids, r \in Roles : updateUserRole(c, t, r)
  \/ \E c \in Callers, t \in Ids, b \in BOOLEAN : setUserActiveStatus(c, t, b)
  \/ \E c \in Callers, q \in Roles : CheckRole(c, q)

Spec == Init /\ [][Next]_vars

\* ------------------------------------------------------------------------
\* Documents, chunks and vector records
\* ------------------------------------------------------------------------

\* NULL in a nullable INTEGER column (the counts it stands beside are never
\* negative)
NullInt == 0 - 1

\* v IS NULL, for a nullable INTEGER column
IsNull(v) == v = NullInt

\* document_chunks.review_status values that count as reviewed
TerminalStatuses == {"approved", "rejected", "filtered"}

ChunksOf(chunkTable, doc_id) ==
  {c \in DOMAIN chunkTable : chunkTable[c].document_id = doc_id}

\* SELECT COUNT(*) FROM document_chunks WHERE document_id = doc_id
\*   AND review_status IN ('approved', 'rejected', 'filtered')
ReviewedCount(chunkTable, doc_id) ==
  Cardinality({c \in ChunksOf(chunkTable, doc_id) :
                 chunkTable[c].review_status \in TerminalStatuses})

\* check_document_completion counting approved chunks only
check_document_completion_ApprovedOnly(docTable, chunkTable, doc_id) ==
  LET total == docTable[doc_id].total_chunks
      reviewed == Cardinality({c \in ChunksOf(chunkTable, doc_id) :
                                 chunkTable[c].review_status = "approved"})
  IN IF ~IsNull(total) /\ reviewed >= total
     THEN [docTable EXCEPT ![doc_id].processing_status = "completed"]
     ELSE docTable

\* check_document_completion(), the trigger function, for NEW.document_id
check_document_completion(docTable, chunkTable, doc_id) ==
  LET total == docTable[doc_id].total_chunks
      reviewed == ReviewedCount(chunkTable, doc_id)
  IN IF ~IsNull(total) /\ reviewed >= total
     THEN [docTable EXCEPT ![doc_id].processing_status = "completed"]
     ELSE docTable

\* check_completion_after_review: AFTER UPDATE OF review_status, FOR EACH ROW,
\* WHEN (NEW.review_status IN ('approved', 'rejected'))
check_completion_after_review(docTable, chunkTable, chunk_id) ==
  IF chunkTable[chunk_id].review_status \in {"approved", "rejected"}
  THEN check_document_completion(docTable, chunkTable, chunkTable[chunk_id].document_id)
  ELSE docTable

\* documents.valid_chunks
valid_chunks(row) ==
  IsNull(row.approved_chunks) \/ IsNull(row.total_chunks) \/ row.approved_chunks <= row.total_chunks

\* COALESCE(v, 0)
Coalesce0(v) == IF IsNull(v) THEN 0 ELSE v

\* Row level security of documents, document_chunks and kb_vectors: every
\* policy the review path meets is is_curator_or_admin(auth.uid())
CuratorPolicy(uid) == uid # Anon /\ is_curator_or_admin(profiles, uid)

\* increment_approved_chunks(doc_id), called by uid (SECURITY INVOKER, so the
\* UPDATE is subject to "Curators can update documents" and to valid_chunks)
increment_approved_chunks(docTable, uid, doc_id) ==
  LET row == [docTable[doc_id] EXCEPT !.approved_chunks = Coalesce0(@) + 1]
  IN IF doc_id \notin DOMAIN docTable \/ ~CuratorPolicy(uid)
     THEN [table |-> docTable, error |-> NULL]
     ELSE IF ~valid_chunks(row)
     THEN [table |-> docTable, error |-> "valid_chunks"]
     ELSE [table |-> [docTable EXCEPT ![doc_id] = row], error |-> NULL]

\* increment_rejected_chunks that writes nothing
increment_rejected_chunks_NoWrite(docTable, uid, doc_id) ==
  [table |-> docTable, error |-> NULL]

\* increment_rejected_chunks(doc_id), called by uid
increment_rejected_chunks(docTable, uid, doc_id) ==
  LET row == [docTable[doc_id] EXCEPT !.rejected_chunks = Coalesce0(@) + 1]
  IN IF doc_id \notin DOMAIN docTable \/ ~CuratorPolicy(uid)
     THEN [table |-> docTable, error |-> NULL]
     ELSE IF ~valid_chunks(row)
     THEN [table |-> docTable, error |-> "valid_chunks"]
     ELSE [table |-> [docTable EXCEPT ![doc_id] = row], error |-> NULL]

\* UpdateReviewStatus that leaves a chunk alone once it has been reviewed
UpdateReviewStatus_OnlyPending(docTable, chunkTable, uid, chunk_id, status) ==
  IF chunk_id \notin DOMAIN chunkTable \/ ~CuratorPolicy(uid)
       \/ chunkTable[chunk_id].review_status # "pending"
  THEN [documents |-> docTable, chunks |-> chunkTable]
  ELSE LET newChunks == [chunkTable EXCEPT ![chunk_id].review_status = status,
                                           ![chunk_id].reviewed_by = uid]
       IN [documents |-> check_completion_after_review(docTable, newChunks, chunk_id),
           chunks |-> newChunks]

\* UPDATE document_chunks SET review_status = status, reviewed_by = uid
\* WHERE id = chunk_id, under "Curators can update chunks", with the trigger
\* check_completion_after_review on the row it writes
UpdateReviewStatus(docTable, chunkTable, uid, chunk_id, status) ==
  IF chunk_id \notin DOMAIN chunkTable \/ ~CuratorPolicy(uid)
  THEN [documents |-> docTable, chunks |-> chunkTable]
  ELSE LET newChunks == [chunkTable EXCEPT ![chunk_id].review_status = status,
                                           ![chunk_id].reviewed_by = uid]
       IN [documents |-> check_completion_after_review(docTable, newChunks, chunk_id),
           chunks |-> newChunks]

\* INSERT INTO kb_vectors under "Curators can insert kb_vectors"; the table
\* has no unique constraint on chunk_id
InsertVector(vectorTable, uid, row) ==
  IF ~CuratorPolicy(uid) THEN [table |-> vectorTable, error |-> "rls"]
  ELSE [table |-> Append(vectorTable, row), error |-> NULL]

\* approveChunk(chunkId, notes, reviewerId) of lib/api/curator: reads the
\* chunk, marks it approved, stores one vector record with the embedding of
\* the configured provider, increments approved_chunks. The statements are
\* separate requests: an error throws and leaves the earlier ones in place.
approveChunk(uid, chunk_id) ==
  IF chunk_id \notin DOMAIN chunks \/ ~CuratorPolicy(uid)
  THEN [documents |-> documents, chunks |-> chunks, kb_vectors |-> kb_vectors, thrown |-> TRUE]
  ELSE LET doc_id == chunks[chunk_id].document_id
           upd == UpdateReviewStatus(documents, chunks, uid, chunk_id, "approved")
           ins == InsertVector(kb_vectors, uid,
                    [chunk_id |-> chunk_id, document_id |-> doc_id,
                     embedding |-> settings.ai_provider, approved_by |-> uid])
           inc == increment_approved_chunks(upd.documents, uid, doc_id)
       IN IF ins.error # NULL
          THEN [documents |-> upd.documents, chunks |-> upd.chunks,
                kb_vectors |-> kb_vectors, thrown |-> TRUE]
          ELSE [documents |-> inc.table, chunks |-> upd.chunks,
                kb_vectors |-> ins.table, thrown |-> inc.error # NULL]

\* rejectChunk(chunkId, reviewerId) of lib/api/curator: reads the chunk,
\* marks it rejected, increments rejected_chunks; no vector record
rejectChunk(uid, chunk_id) ==
  IF chunk_id \notin DOMAIN chunks \/ ~CuratorPolicy(uid)
  THEN [documents |-> documents, chunks |-> chunks, kb_vectors |-> kb_vectors, thrown |-> TRUE]
  ELSE LET doc_id == chunks[chunk_id].document_id
           upd == UpdateReviewStatus(documents, chunks, uid, chunk_id, "rejected")
           inc == increment_rejected_chunks(upd.documents, uid, doc_id)
       IN [documents |-> inc.table, chunks |-> upd.chunks,
           kb_vectors |-> kb_vectors, thrown |-> inc.error # NULL]

\* the role gate that passes every caller who has a profile
HandlerRoleGate_AnyProfile(caller) ==
  getCurrentUser(profiles, caller) # NoProfile

\* The role gate of the review, metadata and upload handlers:
\* select('role') of the caller's own row, then
\* !profile || !['curator', 'admin'].includes(profile.role)
HandlerRoleGate(caller) ==
  LET profile == getCurrentUser(profiles, caller)
  IN profile # NoProfile /\ profile.role \in {"curator", "admin"}

\* POST /api/chunks/[id]/review; at most maxCalls requests of a behaviour
\* reach approveChunk / rejectChunk
ReviewRequest(caller, id, action, maxCalls) ==
  /\ IF caller = Anon \/ caller \notin RegisteredIds
     THEN /\ last' = Op("review", caller, id, action, 401, NULL)
          /\ UNCHANGED reviewVars
     ELSE IF ~HandlerRoleGate(caller)
     THEN /\ last' = Op("review", caller, id, action, 403, NULL)
          /\ UNCHANGED reviewVars
     ELSE IF action \notin {"approve", "reject"}
     THEN /\ last' = Op("review", caller, id, action, 400, NULL)
          /\ UNCHANGED reviewVars
     ELSE /\ nCalls < maxCalls
          /\ nCalls' = nCalls + 1
          /\ LET res == IF action = "approve" THEN approveChunk(caller, id)
                                              ELSE rejectChunk(caller, id)
             IN /\ documents' = res.documents
                /\ chunks' = res.chunks
                /\ kb_vectors' = res.kb_vectors
                /\ last' = Op("review", caller, id, action,
                              IF res.thrown THEN 500 ELSE 200, NULL)
          /\ UNCHANGED settings
  /\ UNCHANGED profileVars
  /\ UNCHANGED clientVars

\* POST /api/chunks/[id]/review
ReviewPOST(caller, id, action) == ReviewRequest(caller, id, action, MaxCalls)

\* ------------------------------------------------------------------------
\* Specification of the review pipeline
\* ------------------------------------------------------------------------

\* rows of profiles the second identity may have when a review starts
ReviewerRows ==
  {[id |-> "u2", email |-> Mail, full_name |-> "", role |-> r, is_active |-> a] :
     r \in Roles, a \in BOOLEAN}

\* A document the pipeline has chunked: total_chunks = n, every chunk
\* pending, status review. The first admin is active; the second identity
\* has any profile the profile store can hold, or none (its creation failed).
InitReview ==
  /\ insertOwn = FALSE
  /\ fetchPc = [u \in Ids |-> 0]
  /\ \/ /\ authUsers = {[id |-> "a1", email |-> Mail, meta_name |-> NULL],
                        [id |-> "u2", email |-> NULL, meta_name |-> NULL]}
        /\ profiles = {[id |-> "a1", email |-> Mail, full_name |-> "", role |-> "admin", is_active |-> TRUE]}
        /\ pgLog = {"u2"}
     \/ /\ authUsers = {[id |-> "a1", email |-> Mail, meta_name |-> NULL],
                        [id |-> "u2", email |-> Mail, meta_name |-> NULL]}
        /\ \E row \in ReviewerRows :
             profiles = {[id |-> "a1", email |-> Mail, full_name |-> "", role |-> "admin", is_active |-> TRUE], row}
        /\ pgLog = {}
  /\ \E n \in 1..MaxChunks :
       /\ documents = [d \in DocIds |->
            [processing_status |-> "review", total_chunks |-> n,
             approved_chunks |-> 0, rejected_chunks |-> 0]]
       /\ chunks = [c \in 1..n |->
            [document_id |-> "d1", chunk_index |-> c - 1,
             review_status |-> "pending", reviewed_by |-> NULL]]
  /\ kb_vectors = <<>>
  /\ \E p \in Providers : settings = [ai_provider |-> p]
  /\ nCalls = 0
  /\ last = NoOp
  /\ ClientsIdle

NextReview ==
  \E c \in Callers, id \in ChunkIds, a \in Actions : ReviewPOST(c, id, a)

SpecReview == InitReview /\ [][NextReview]_vars

\* ------------------------------------------------------------------------
\* Review of one document by the admin, chunk after chunk
\* ------------------------------------------------------------------------

\* chunks of the document in a review session (the scenario of three chunks)
MaxSessionChunks == 3

\* review requests of a session
MaxSessionCalls == 3

\* A document of n chunks, all pending, in review; the admin is the reviewer
InitSession ==
  /\ insertOwn = FALSE
  /\ fetchPc = [u \in Ids |-> 0]
  /\ authUsers = {[id |-> "a1", email |-> Mail, meta_name |-> NULL]}
  /\ profiles = {[id |-> "a1", email |-> Mail, full_name |-> "", role |-> "admin", is_active |-> TRUE]}
  /\ pgLog = {}
  /\ \E n \in 1..MaxSessionChunks :
       /\ documents = [d \in DocIds |->
            [processing_status |-> "review", total_chunks |-> n,
             approved_chunks |-> 0, rejected_chunks |-> 0]]
       /\ chunks = [c \in 1..n |->
            [document_id |-> "d1", chunk_index |-> c - 1,
             review_status |-> "pending", reviewed_by |-> NULL]]
  /\ kb_vectors = <<>>
  /\ \E p \in Providers : settings = [ai_provider |-> p]
  /\ nCalls = 0
  /\ last = NoOp
  /\ ClientsIdle

NextSession ==
  \E id \in 1..MaxSessionChunks, a \in {"approve", "reject"} :
    ReviewRequest("a1", id, a, MaxSessionCalls)

SpecSession == InitSession /\ [][NextSession]_vars

\* ------------------------------------------------------------------------
\* Document lifecycle: statuses written by the processing pipeline
\* ------------------------------------------------------------------------

\* documents.processing_status CHECK (... IN (...))
ProcessingStatuses == {"pending", "processing", "review", "completed", "failed"}

\* UPDATE document_chunks SET review_status = 'filtered' WHERE id = chunk_id
\* (a section the pipeline filters out), issued by uid under "Curators can
\* update chunks"; the trigger check_completion_after_review is declared on
\* this UPDATE and decides by its WHEN clause whether it runs
FilterChunk(uid, chunk_id) ==
  /\ chunk_id \in DOMAIN chunks
  /\ LET upd == UpdateReviewStatus(documents, chunks, uid, chunk_id, "filtered")
     IN /\ documents' = upd.documents
        /\ chunks' = [upd.chunks EXCEPT ![chunk_id].reviewed_by = chunks[chunk_id].reviewed_by]
        /\ last' = Op("filter", uid, chunk_id, "filtered", NULL, NULL)
  /\ UNCHANGED <<kb_vectors, settings, nCalls>>
  /\ UNCHANGED profileVars
  /\ UNCHANGED clientVars

\* A document the pipeline has chunked and left in review, or marked failed
\* after its chunks were stored; every chunk pending; the admin reviews.
InitLifecycle ==
  /\ insertOwn = FALSE
  /\ fetchPc = [u \in Ids |-> 0]
  /\ authUsers = {[id |-> "a1", email |-> Mail, meta_name |-> NULL]}
  /\ profiles = {[id |-> "a1", email |-> Mail, full_name |-> "", role |-> "admin", is_active |-> TRUE]}
  /\ pgLog = {}
  /\ \E n \in 1..MaxChunks, st \in {"review", "failed"} :
       /\ documents = [d \in DocIds |->
            [processing_status |-> st, total_chunks |-> n,
             approved_chunks |-> 0, rejected_chunks |-> 0]]
       /\ chunks = [c \in 1..n |->
            [document_id |-> "d1", chunk_index |-> c - 1,
             review_status |-> "pending", reviewed_by |-> NULL]]
  /\ kb_vectors = <<>>
  /\ settings = [ai_provider |-> "gemini"]
  /\ nCalls = 0
  /\ last = NoOp
  /\ ClientsIdle

NextLifecycle ==
  \/ \E id \in ChunkIds, a \in {"approve", "reject"} : ReviewRequest("a1", id, a, MaxCalls)
  \/ \E id \in ChunkIds : FilterChunk("a1", id)

SpecLifecycle == InitLifecycle /\ [][NextLifecycle]_vars

\* ------------------------------------------------------------------------
\* Metadata edits and uploads
\* ------------------------------------------------------------------------

\* requests that reach a write in one behaviour
MaxHandlerCalls == 2

\* chunk ids of the requests: the chunk of the document and an id that no
\* chunk has
HandlerChunkIds == {1, 2}

\* the value written for new Date().toISOString()
Now == "now"

\* body.metadata of a request that carries none
NoMetadata == [undefined |-> TRUE]

\* body.metadata of a metadata request: missing, or a partial
\* ChunkAIMetadata object
MetadataInputs ==
  {NoMetadata, [topic |-> "new"], [last_updated |-> "new"]}

\* document_chunks.ai_metadata as the pipeline stored it
StoredMetadata ==
  {[topic |-> "old", subtopic |-> "old"],
   [topic |-> "old", subtopic |-> "old", last_updated |-> "old"]}

\* the merge that forgets the existing keys
MergeMetadata_Replace(existing, metadata) ==
  ("last_updated" :> Now) @@ metadata

\* {...currentChunk.ai_metadata, ...metadata, last_updated: now}
MergeMetadata(existing, metadata) ==
  ("last_updated" :> Now) @@ metadata @@ existing

\* PUT /api/chunks/[id]/review with body {metadata}
MetadataPUT(caller, id, metadata) ==
  /\ IF caller = Anon \/ caller \notin RegisteredIds
     THEN /\ last' = Op("metadata", caller, id, metadata, 401, NULL)
          /\ UNCHANGED <<chunks, nCalls>>
     ELSE IF ~HandlerRoleGate(caller)
     THEN /\ last' = Op("metadata", caller, id, metadata, 403, NULL)
          /\ UNCHANGED <<chunks, nCalls>>
     ELSE IF metadata = NoMetadata
     THEN /\ last' = Op("metadata", caller, id, metadata, 400, NULL)
          /\ UNCHANGED <<chunks, nCalls>>
     ELSE IF id \notin DOMAIN chunks \/ ~CuratorPolicy(caller)
     THEN /\ last' = Op("metadata", caller, id, metadata, 404, NULL)
          /\ UNCHANGED <<chunks, nCalls>>
     ELSE /\ nCalls < MaxHandlerCalls
          /\ nCalls' = nCalls + 1
          /\ LET updatedMetadata == MergeMetadata(chunks[id].ai_metadata, metadata)
             IN /\ chunks' = [chunks EXCEPT ![id].ai_metadata = updatedMetadata,
                                            ![id].metadata_edited = TRUE,
                                            ![id].metadata_edited_by = caller]
                /\ last' = Op("metadata", caller, id, metadata, 200, updatedMetadata)
  /\ UNCHANGED <<documents, kb_vectors, settings>>
  /\ UNCHANGED profileVars
  /\ UNCHANGED clientVars

\* ids the store hands out for uploaded documents
UploadIds == {"d2"}

\* the multipart form of an upload: which of file, title, documentType are
\* present
UploadForms == [file : BOOLEAN, title : BOOLEAN, documentType : BOOLEAN]

\* columns of documents
DocumentColumns ==
  {"id", "filename", "original_filename", "doc_type", "storage_path", "file_size",
   "mime_type", "upload_date", "uploaded_by", "processing_status", "total_chunks",
   "approved_chunks", "rejected_chunks", "metadata", "error_message"}

\* uploadDocument(file, docType) of lib/api/curator: stores the file and
\* inserts the documents row under "Curators can insert documents"; the
\* columns it does not set take their defaults. An error throws.
uploadDocument(docTable, uid, newId) ==
  IF ~CuratorPolicy(uid)
  THEN [table |-> docTable, documentId |-> NULL, thrown |-> TRUE]
  ELSE [table |-> docTable @@ (newId :>
                    [processing_status |-> "pending", total_chunks |-> NullInt,
                     approved_chunks |-> 0, rejected_chunks |-> 0]),
        documentId |-> newId, thrown |-> FALSE]

\* the UPDATE of documents that writes processing_status unchecked
UpdateDocument_Unchecked(docTable, uid, id, columns, status) ==
  [table |-> [docTable EXCEPT ![id].processing_status = status], error |-> NULL]

\* .from('documents').update({...}).eq('id', id) issued by uid: columns are
\* the keys of the payload, status the value it gives processing_status.
\* A key that is no column of documents is an error; so is a row that fails
\* the CHECK on processing_status or valid_chunks. Under "Curators can
\* update documents" a hidden row is not updated, without error.
UpdateDocument(docTable, uid, id, columns, status) ==
  IF ~(columns \subseteq DocumentColumns)
  THEN [table |-> docTable, error |-> "column"]
  ELSE IF id \notin DOMAIN docTable \/ ~CuratorPolicy(uid)
  THEN [table |-> docTable, error |-> NULL]
  ELSE IF status \notin ProcessingStatuses
            \/ ~valid_chunks([docTable[id] EXCEPT !.processing_status = status])
  THEN [table |-> docTable, error |-> "check"]
  ELSE [table |-> [docTable EXCEPT ![id].processing_status = status], error |-> NULL]

\* POST /api/documents/upload
UploadPOST(caller, form) ==
  /\ IF caller = Anon \/ caller \notin RegisteredIds
     THEN /\ last' = Op("upload", caller, NULL, form, 401, NULL)
          /\ UNCHANGED <<documents, nCalls>>
     ELSE IF ~HandlerRoleGate(caller)
     THEN /\ last' = Op("upload", caller, NULL, form, 403, NULL)
          /\ UNCHANGED <<documents, nCalls>>
     ELSE IF ~form.file \/ ~form.title \/ ~form.documentType
     THEN /\ last' = Op("upload", caller, NULL, form, 400, NULL)
          /\ UNCHANGED <<documents, nCalls>>
     ELSE /\ nCalls < MaxHandlerCalls
          /\ nCalls' = nCalls + 1
          /\ \E newId \in UploadIds \ DOMAIN documents :
               LET uploadResult == uploadDocument(documents, caller, newId)
                   upd == UpdateDocument(uploadResult.table, caller, uploadResult.documentId,
                                         {"title", "document_type", "description", "processing_status"},
                                         "draft")
               IN IF uploadResult.thrown
                  THEN /\ documents' = uploadResult.table
                       /\ last' = Op("upload", caller, NULL, form, 500, NULL)
                  ELSE /\ documents' = upd.table
                       /\ last' = Op("upload", caller, uploadResult.documentId, form, 200, upd.error)
  /\ UNCHANGED <<chunks, kb_vectors, settings>>
  /\ UNCHANGED profileVars
  /\ UNCHANGED clientVars

\* A document in review with its one chunk pending and its metadata stored;
\* the first admin, and a second identity with any profile or none.
InitHandlers ==
  /\ insertOwn = FALSE
  /\ fetchPc = [u \in Ids |-> 0]
  /\ \/ /\ authUsers = {[id |-> "a1", email |-> Mail, meta_name |-> NULL],
                        [id |-> "u2", email |-> NULL, meta_name |-> NULL]}
        /\ profiles = {[id |-> "a1", email |-> Mail, full_name |-> "", role |-> "admin", is_active |-> TRUE]}
        /\ pgLog = {"u2"}
     \/ /\ authUsers = {[id |-> "a1", email |-> Mail, meta_name |-> NULL],
                        [id |-> "u2", email |-> Mail, meta_name |-> NULL]}
        /\ \E row \in ReviewerRows :
             profiles = {[id |-> "a1", email |-> Mail, full_name |-> "", role |-> "admin", is_active |-> TRUE], row}
        /\ pgLog = {}
  /\ \E m \in StoredMetadata :
       /\ documents = [d \in DocIds |->
            [processing_status |-> "review", total_chunks |-> 1,
             approved_chunks |-> 0, rejected_chunks |-> 0]]
       /\ chunks = [c \in {1} |->
            [document_id |-> "d1", chunk_index |-> c - 1, chunk_text |-> "text",
             review_status |-> "pending", reviewed_by |-> NULL, curator_notes |-> NULL,
             ai_metadata |-> m, metadata_edited |-> FALSE, metadata_edited_by |-> NULL]]
  /\ kb_vectors = <<>>
  /\ settings = [ai_provider |-> "gemini"]
  /\ nCalls = 0
  /\ last = NoOp
  /\ ClientsIdle

NextHandlers ==
  \/ \E c \in Callers, id \in HandlerChunkIds, a \in Actions :
       ReviewRequest(c, id, a, MaxHandlerCalls)
  \/ \E c \in Callers, id \in HandlerChunkIds, m \in MetadataInputs : MetadataPUT(c, id, m)
  \/ \E c \in Callers, f \in UploadForms : UploadPOST(c, f)

SpecHandlers == InitHandlers /\ [][NextHandlers]_vars

\* ------------------------------------------------------------------------
\* useCurator: navigation over the chunk list and review statistics
\* ------------------------------------------------------------------------

\* longest chunk list getChunksForReview returns
MaxList == 2

\* the counts of a DocumentStats tuple
StatValues == {0, 1}

\* the totals of a DocumentStats tuple
StatTotals == {0, 2}

\* state updates issued before the hook renders again
MaxBatched == 2

\* the tuples getDocumentStats may return
StatsTuples ==
  [total : StatTotals, approved : StatValues, rejected : StatValues,
   pending : StatValues, filtered : {0}]

\* the arguments of goToChunk
GoToInputs == (0 - 1)..(MaxList + 1)

\* Math.max(a, b)
Max(a, b) == IF a >= b THEN a ELSE b

\* isComplete without the test of total
isComplete_PendingOnly(stats) == stats.pending = 0

\* isComplete: stats.pending === 0 && stats.total > 0
isComplete(stats) == stats.pending = 0 /\ stats.total > 0

\* progress: stats.total > 0 ? (stats.approved + stats.rejected) / stats.total : 0,
\* as the fraction <<numerator, denominator>>
progress(stats) ==
  IF stats.total > 0 THEN <<stats.approved + stats.rejected, stats.total>> ELSE <<0, 1>>

\* the hook renders again: the callbacks capture the current state
Render ==
  /\ curator.sinceRender > 0
  /\ curator' = [curator EXCEPT !.renderedIndex = curator.currentChunkIndex,
                                !.renderedLength = curator.chunksLength,
                                !.sinceRender = 0]
  /\ last' = Op("render", NULL, NULL, NULL, NULL, NULL)
  /\ UNCHANGED <<inflight, auth>>
  /\ UNCHANGED profileVars
  /\ UNCHANGED reviewVars

\* nextChunk(): the guard reads the captured index and length, the update
\* is setCurrentChunkIndex((prev) => prev + 1)
nextChunk ==
  /\ curator.sinceRender < MaxBatched
  /\ IF curator.renderedIndex < curator.renderedLength - 1
     THEN curator' = [curator EXCEPT !.currentChunkIndex = @ + 1, !.sinceRender = @ + 1]
     ELSE UNCHANGED curator
  /\ last' = Op("nextChunk", NULL, NULL, NULL, NULL, NULL)
  /\ UNCHANGED <<inflight, auth>>
  /\ UNCHANGED profileVars
  /\ UNCHANGED reviewVars

\* previousChunk(): setCurrentChunkIndex((prev) => prev - 1) when the
\* captured index is above 0
previousChunk ==
  /\ curator.sinceRender < MaxBatched
  /\ IF curator.renderedIndex > 0
     THEN curator' = [curator EXCEPT !.currentChunkIndex = @ - 1, !.sinceRender = @ + 1]
     ELSE UNCHANGED curator
  /\ last' = Op("previousChunk", NULL, NULL, NULL, NULL, NULL)
  /\ UNCHANGED <<inflight, auth>>
  /\ UNCHANGED profileVars
  /\ UNCHANGED reviewVars

\* goToChunk(index): setCurrentChunkIndex(index) when index is inside the
\* captured length
goToChunk(index) ==
  /\ curator.sinceRender < MaxBatched
  /\ IF index >= 0 /\ index < curator.renderedLength
     THEN curator' = [curator EXCEPT !.currentChunkIndex = index, !.sinceRender = @ + 1]
     ELSE UNCHANGED curator
  /\ last' = Op("goToChunk", NULL, NULL, index, NULL, NULL)
  /\ UNCHANGED <<inflight, auth>>
  /\ UNCHANGED profileVars
  /\ UNCHANGED reviewVars

\* refreshChunks(), up to its await: nothing without a document; otherwise
\* the two reads are sent, and the call holds the captured index
RefreshChunksCall ==
  /\ ~curator.refreshing
  /\ IF ~curator.loaded
     THEN UNCHANGED curator
     ELSE curator' = [curator EXCEPT !.refreshing = TRUE,
                                     !.refreshIndex = curator.renderedIndex]
  /\ last' = Op("refreshChunks", NULL, NULL, NULL, NULL, NULL)
  /\ UNCHANGED <<inflight, auth>>
  /\ UNCHANGED profileVars
  /\ UNCHANGED reviewVars

\* refreshChunks(), after its await, when one of the reads failed: the
\* error is logged and nothing is set
RefreshChunksThrow ==
  /\ curator.refreshing
  /\ curator' = [curator EXCEPT !.refreshing = FALSE]
  /\ last' = Op("refreshed", NULL, NULL, NULL, FALSE, NULL)
  /\ UNCHANGED <<inflight, auth>>
  /\ UNCHANGED profileVars
  /\ UNCHANGED reviewVars

\* refreshChunks(), after its await: the reads returned a list of n chunks
\* and statsData
RefreshChunksReturn(n, statsData) ==
  /\ curator.refreshing
  /\ curator' = [curator EXCEPT
       !.refreshing = FALSE,
       !.chunksLength = n,
       !.stats = statsData,
       !.currentChunkIndex = IF curator.refreshIndex >= n THEN Max(0, n - 1) ELSE @,
       !.sinceRender = MaxBatched]
  /\ last' = Op("refreshed", NULL, NULL, n, TRUE, NULL)
  /\ UNCHANGED <<inflight, auth>>
  /\ UNCHANGED profileVars
  /\ UNCHANGED reviewVars

\* The hook after its first load: no document (empty list, zero stats), or
\* a document whose n chunks and statistics were loaded; index 0, rendered.
InitCurator ==
  /\ authUsers = {[id |-> "a1", email |-> Mail, meta_name |-> NULL]}
  /\ profiles = {[id |-> "a1", email |-> Mail, full_name |-> "", role |-> "admin", is_active |-> TRUE]}
  /\ insertOwn = FALSE
  /\ pgLog = {}
  /\ fetchPc = [u \in Ids |-> 0]
  /\ documents = <<>>
  /\ chunks = <<>>
  /\ kb_vectors = <<>>
  /\ settings = [ai_provider |-> "gemini"]
  /\ nCalls = 0
  /\ inflight = <<>>
  /\ auth = <<>>
  /\ \/ curator = InitialCurator
     \/ \E n \in 0..MaxList, statsData \in StatsTuples :
          curator = [InitialCurator EXCEPT !.loaded = TRUE, !.chunksLength = n,
                                           !.renderedLength = n, !.stats = statsData]
  /\ last = NoOp

NextCurator ==
  \/ Render
  \/ nextChunk
  \/ previousChunk
  \/ \E i \in GoToInputs : goToChunk(i)
  \/ RefreshChunksCall
  \/ RefreshChunksThrow
  \/ \E n \in 0..MaxList, statsData \in StatsTuples : RefreshChunksReturn(n, statsData)

SpecCurator == InitCurator /\ [][NextCurator]_vars

\* ------------------------------------------------------------------------
\* The copies of the role check and the guards derived from it
\* ------------------------------------------------------------------------

\* isCuratorOrAdmin() of lib/auth/helpers.ts
isCuratorOrAdmin(table, caller) == hasRole(table, caller, "curator")

\* isAdmin() of lib/auth/helpers.ts
isAdmin(table, caller) ==
  LET user == getCurrentUser(table, caller)
  IN user # NoProfile /\ user.role = "admin" /\ user.is_active = TRUE

\* requireAuth that lets an inactive profile through
requireAuth_NoActiveCheck(table, caller) ==
  LET user == getCurrentUser(table, caller)
  IN IF user = NoProfile THEN "/login" ELSE "pass"

\* requireAuth(): the redirect target, or "pass" when the profile is returned
requireAuth(table, caller) ==
  LET user == getCurrentUser(table, caller)
  IN IF user = NoProfile THEN "/login"
     ELSE IF ~user.is_active THEN "/login?error=inactive"
     ELSE "pass"

\* requireCurator()
requireCurator(table, caller) ==
  LET user == getCurrentUser(table, caller)
  IN IF requireAuth(table, caller) # "pass" THEN requireAuth(table, caller)
     ELSE IF user.role # "curator" /\ user.role # "admin" THEN "/unauthorized"
     ELSE "pass"

\* requireAdmin()
requireAdmin(table, caller) ==
  LET user == getCurrentUser(table, caller)
  IN IF requireAuth(table, caller) # "pass" THEN requireAuth(table, caller)
     ELSE IF user.role # "admin" THEN "/unauthorized"
     ELSE "pass"

\* isRole(role) of the AuthProvider, on the profile the provider holds
isRole(profile, role) ==
  IF profile = NoProfile \/ ~profile.is_active THEN FALSE
  ELSE IF profile.role = "admin" THEN TRUE
  ELSE IF profile.role = "curator" /\ (role = "curator" \/ role = "user") THEN TRUE
  ELSE IF profile.role = "user" /\ role = "user" THEN TRUE
  ELSE FALSE

\* isAdmin of the AuthProvider's context value
contextIsAdmin(profile) ==
  profile # NoProfile /\ profile.role = "admin" /\ profile.is_active = TRUE

\* the profile the AuthProvider of caller's browser holds after fetchProfile:
\* the own row, read under row level security; null without one
FetchedProfile(table, caller) ==
  LET visible == {r \in RowsOf(table, caller) : ProfilesSelectPolicy(table, caller, r)}
  IN IF caller \notin RegisteredIds \/ visible = {} THEN NoProfile
     ELSE CHOOSE r \in visible : TRUE

\* the three copies of the role check, asked for the same caller
RoleChecks(caller, requiredRole) ==
  /\ last' = Op("roleChecks", caller, NULL, requiredRole,
                [hasRole |-> hasRole(profiles, caller, requiredRole),
                 has_role |-> has_role(profiles, caller, requiredRole),
                 isRole |-> isRole(FetchedProfile(profiles, caller), requiredRole)],
                NULL)
  /\ UNCHANGED profileVars
  /\ UNCHANGED reviewVars
  /\ UNCHANGED clientVars

\* the guards for admin, asked for the same caller
AdminGuards(caller) ==
  /\ last' = Op("adminGuards", caller, NULL, "admin",
                [isAdmin |-> isAdmin(profiles, caller),
                 is_admin |-> is_admin(profiles, caller),
                 contextIsAdmin |-> contextIsAdmin(FetchedProfile(profiles, caller)),
                 requireAdmin |-> requireAdmin(profiles, caller)],
                NULL)
  /\ UNCHANGED profileVars
  /\ UNCHANGED reviewVars
  /\ UNCHANGED clientVars

\* the guards for curator, asked for the same caller
CuratorGuards(caller) ==
  /\ last' = Op("curatorGuards", caller, NULL, "curator",
                [isCuratorOrAdmin |-> isCuratorOrAdmin(profiles, caller),
                 is_curator_or_admin |-> is_curator_or_admin(profiles, caller),
                 isCurator |-> isRole(FetchedProfile(profiles, caller), "curator"),
                 requireCurator |-> requireCurator(profiles, caller)],
                NULL)
  /\ UNCHANGED profileVars
  /\ UNCHANGED reviewVars
  /\ UNCHANGED clientVars

\* The first admin, and a second identity whose profile has any role and
\* any is_active, or which has no profile.
InitGuards ==
  /\ insertOwn = FALSE
  /\ fetchPc = [u \in Ids |-> 0]
  /\ \/ /\ authUsers = {[id |-> "a1", email |-> Mail, meta_name |-> NULL],
                        [id |-> "u2", email |-> NULL, meta_name |-> NULL]}
        /\ profiles = {[id |-> "a1", email |-> Mail, full_name |-> "", role |-> "admin", is_active |-> TRUE]}
        /\ pgLog = {"u2"}
     \/ /\ authUsers = {[id |-> "a1", email |-> Mail, meta_name |-> NULL],
                        [id |-> "u2", email |-> Mail, meta_name |-> NULL]}
        /\ \E row \in ReviewerRows :
             profiles = {[id |-> "a1", email |-> Mail, full_name |-> "", role |-> "admin", is_active |-> TRUE], row}
        /\ pgLog = {}
  /\ documents = <<>>
  /\ chunks = <<>>
  /\ kb_vectors = <<>>
  /\ settings = [ai_provider |-> "gemini"]
  /\ nCalls = 0
  /\ ClientsIdle
  /\ last = NoOp

NextGuards ==
  \/ \E c \in Callers, q \in Roles : RoleChecks(c, q)
  \/ \E c \in Callers : AdminGuards(c)
  \/ \E c \in Callers : CuratorGuards(c)

SpecGuards == InitGuards /\ [][NextGuards]_vars

\* ------------------------------------------------------------------------
\* Deletions and foreign keys
\* ------------------------------------------------------------------------

\* the documents of the store
StoredDocIds == DocIds \cup UploadIds

\* the chunk ids statements may name: those of the two stored chunks and
\* one that no chunk has
StatementChunkIds == {1, 2, 3}

\* statements that may add a vector record in one behaviour
MaxVectorCalls == 2

\* Row level security for DELETE on documents and kb_vectors:
\* is_admin(auth.uid())
AdminPolicy(uid) == uid # Anon /\ is_admin(profiles, uid)

\* Row level security for DELETE on document_chunks: no policy is defined,
\* so no row is visible to the statement
ChunksDeletePolicy(uid) == FALSE

\* the function f without the arguments in gone
Without(f, gone) == [x \in DOMAIN f \ gone |-> f[x]]

\* DELETE FROM documents that leaves the referencing rows in place
DeleteDocumentRows_NoCascade(uid, doc_id) ==
  IF doc_id \notin DOMAIN documents \/ ~AdminPolicy(uid)
  THEN [documents |-> documents, chunks |-> chunks, kb_vectors |-> kb_vectors]
  ELSE [documents |-> Without(documents, {doc_id}), chunks |-> chunks, kb_vectors |-> kb_vectors]

\* DELETE FROM documents WHERE id = doc_id, issued by uid: the rows of
\* document_chunks and kb_vectors that reference the document, and the rows
\* of kb_vectors that reference those chunks, go with it (ON DELETE CASCADE)
DeleteDocumentRows(uid, doc_id) ==
  IF doc_id \notin DOMAIN documents \/ ~AdminPolicy(uid)
  THEN [documents |-> documents, chunks |-> chunks, kb_vectors |-> kb_vectors]
  ELSE LET gone == ChunksOf(chunks, doc_id)
           keep(v) == v.document_id # doc_id /\ v.chunk_id \notin gone
       IN [documents |-> Without(documents, {doc_id}),
           chunks |-> Without(chunks, gone),
           kb_vectors |-> SelectSeq(kb_vectors, keep)]

\* DELETE FROM documents WHERE id = doc_id, sent by caller
DeleteDocument(caller, doc_id) ==
  /\ LET del == DeleteDocumentRows(caller, doc_id)
     IN /\ documents' = del.documents
        /\ chunks' = del.chunks
        /\ kb_vectors' = del.kb_vectors
        /\ last' = Op("deleteDocument", caller, doc_id, NULL,
                      Cardinality(DOMAIN documents) - Cardinality(DOMAIN del.documents),
                      Len(kb_vectors) - Len(del.kb_vectors))
  /\ UNCHANGED <<settings, nCalls>>
  /\ UNCHANGED profileVars
  /\ UNCHANGED clientVars

\* DELETE FROM document_chunks WHERE id = chunk_id, sent by caller
DeleteChunk(caller, chunk_id) ==
  /\ LET gone == IF chunk_id \in DOMAIN chunks /\ ChunksDeletePolicy(caller)
                 THEN {chunk_id} ELSE {}
         keep(v) == v.chunk_id \notin gone
     IN /\ chunks' = Without(chunks, gone)
        /\ kb_vectors' = SelectSeq(kb_vectors, keep)
        /\ last' = Op("deleteChunk", caller, chunk_id, NULL, Cardinality(gone), NULL)
  /\ UNCHANGED <<documents, settings, nCalls>>
  /\ UNCHANGED profileVars
  /\ UNCHANGED clientVars

\* DELETE FROM kb_vectors WHERE chunk_id = chunk_id, sent by caller
DeleteVectors(caller, chunk_id) ==
  /\ LET keep(v) == ~(v.chunk_id = chunk_id /\ AdminPolicy(caller))
     IN /\ kb_vectors' = SelectSeq(kb_vectors, keep)
        /\ last' = Op("deleteVectors", caller, chunk_id, NULL,
                      Len(kb_vectors) - Len(SelectSeq(kb_vectors, keep)), NULL)
  /\ UNCHANGED <<documents, chunks, settings, nCalls>>
  /\ UNCHANGED profileVars
  /\ UNCHANGED clientVars

\* INSERT INTO kb_vectors (chunk_id, document_id, ...) sent by caller:
\* "Curators can insert kb_vectors", then the two foreign keys
InsertVectorRow(caller, chunk_id, doc_id) ==
  /\ nCalls < MaxVectorCalls
  /\ nCalls' = nCalls + 1
  /\ LET ins == InsertVector(kb_vectors, caller,
                  [chunk_id |-> chunk_id, document_id |-> doc_id,
                   embedding |-> settings.ai_provider, approved_by |-> caller])
         error == IF ins.error # NULL THEN ins.error
                  ELSE IF chunk_id \notin DOMAIN chunks \/ doc_id \notin DOMAIN documents
                  THEN "foreign_key"
                  ELSE NULL
     IN /\ kb_vectors' = IF error = NULL THEN ins.table ELSE kb_vectors
        /\ last' = Op("insertVector", caller, chunk_id, doc_id, error = NULL, error)
  /\ UNCHANGED <<documents, chunks, settings>>
  /\ UNCHANGED profileVars
  /\ UNCHANGED clientVars

\* Two documents in review with one pending chunk each; the first admin and
\* a second identity with any profile or none.
InitDelete ==
  /\ insertOwn = FALSE
  /\ fetchPc = [u \in Ids |-> 0]
  /\ \/ /\ authUsers = {[id |-> "a1", email |-> Mail, meta_name |-> NULL],
                        [id |-> "u2", email |-> NULL, meta_name |-> NULL]}
        /\ profiles = {[id |-> "a1", email |-> Mail, full_name |-> "", role |-> "admin", is_active |-> TRUE]}
        /\ pgLog = {"u2"}
     \/ /\ authUsers = {[id |-> "a1", email |-> Mail, meta_name |-> NULL],
                        [id |-> "u2", email |-> Mail, meta_name |-> NULL]}
        /\ \E row \in ReviewerRows :
             profiles = {[id |-> "a1", email |-> Mail, full_name |-> "", role |-> "admin", is_active |-> TRUE], row}
        /\ pgLog = {}
  /\ documents = [d \in StoredDocIds |->
       [processing_status |-> "review", total_chunks |-> 1,
        approved_chunks |-> 0, rejected_chunks |-> 0]]
  /\ chunks = [c \in {1, 2} |->
       [document_id |-> IF c = 1 THEN "d1" ELSE "d2", chunk_index |-> 0,
        review_status |-> "pending", reviewed_by |-> NULL]]
  /\ kb_vectors = <<>>
  /\ settings = [ai_provider |-> "gemini"]
  /\ nCalls = 0
  /\ ClientsIdle
  /\ last = NoOp

NextDelete ==
  \/ \E c \in Callers, id \in StatementChunkIds : ReviewRequest(c, id, "approve", MaxVectorCalls)
  \/ \E c \in Callers, d \in StoredDocIds : DeleteDocument(c, d)
  \/ \E c \in Callers, id \in StatementChunkIds : DeleteChunk(c, id)
  \/ \E c \in Callers, id \in StatementChunkIds : DeleteVectors(c, id)
  \/ \E c \in Callers, id \in StatementChunkIds, d \in StoredDocIds : InsertVectorRow(c, id, d)

SpecDelete == InitDelete /\ [][NextDelete]_vars

\* ------------------------------------------------------------------------
\* Review and metadata requests in progress at the same time
\* ------------------------------------------------------------------------

\* the requests that may be in progress at once
RaceSlots == {1, 2}

\* the chunk ids the requests name
RaceChunkIds == {1, 2}

\* partial metadata with disjoint sets of keys
RaceMetadata == {[topic |-> "new"], [subtopic |-> "new"]}

\* a slot that has not been used
Unused ==
  [pc |-> "unused", kind |-> NULL, caller |-> NULL, id |-> 0, doc |-> NULL, arg |-> NULL,
   read |-> <<>>, startedAt |-> 0, updatedAt |-> 0, doneAt |-> 0, ret |-> 0]

\* the request of slot has returned with status ret at time nCalls + 1
Done(slot, status) ==
  [inflight EXCEPT ![slot].pc = "done", ![slot].ret = status, ![slot].doneAt = nCalls + 1]

\* the documents row is never locked
DocLocked_Never(slot, doc_id) == FALSE

\* the documents row doc_id carries a write of another transaction that has
\* not committed yet: a statement that writes the row waits for it
DocLocked(slot, doc_id) ==
  \E t \in RaceSlots \ {slot} : inflight[t].pc = "commit" /\ inflight[t].doc = doc_id

\* POST /api/chunks/[id]/review up to the first statement of approveChunk /
\* rejectChunk: session, role gate, action, and the read of the chunk
ReviewBegin(slot, caller, id, action) ==
  /\ inflight[slot].pc = "unused"
  /\ LET r == [Unused EXCEPT !.kind = "review", !.caller = caller, !.id = id, !.arg = action,
                            !.startedAt = nCalls + 1]
         started == [inflight EXCEPT ![slot] = r]
         status == IF caller = Anon \/ caller \notin RegisteredIds THEN 401
                   ELSE IF ~HandlerRoleGate(caller) THEN 403
                   ELSE IF action \notin {"approve", "reject"} THEN 400
                   ELSE IF id \notin DOMAIN chunks \/ ~CuratorPolicy(caller) THEN 500
                   ELSE 0
     IN IF status # 0
        THEN /\ inflight' = [started EXCEPT ![slot].pc = "done", ![slot].ret = status,
                                            ![slot].doneAt = nCalls + 1]
             /\ last' = Op("review", caller, id, action, status, NULL)
        ELSE /\ inflight' = [started EXCEPT ![slot].pc = "update",
                                            ![slot].doc = chunks[id].document_id]
             /\ UNCHANGED last
  /\ nCalls' = nCalls + 1
  /\ UNCHANGED <<documents, chunks, kb_vectors, settings, curator, auth>>
  /\ UNCHANGED profileVars

\* approveChunk / rejectChunk: the UPDATE of review_status and reviewed_by,
\* with its trigger
ReviewUpdate(slot) ==
  /\ inflight[slot].pc = "update"
  /\ ~DocLocked(slot, inflight[slot].doc)
  /\ LET r == inflight[slot]
         upd == UpdateReviewStatus(documents, chunks, r.caller, r.id,
                  IF r.arg = "approve" THEN "approved" ELSE "rejected")
     IN /\ documents' = upd.documents
        /\ chunks' = upd.chunks
        /\ inflight' = [inflight EXCEPT
               ![slot].pc = IF r.arg = "approve" THEN "insert" ELSE "increment",
               ![slot].updatedAt = nCalls + 1]
  /\ nCalls' = nCalls + 1
  /\ UNCHANGED <<kb_vectors, settings, curator, auth, last>>
  /\ UNCHANGED profileVars

\* approveChunk: the INSERT of the vector record
ReviewInsert(slot) ==
  /\ inflight[slot].pc = "insert"
  /\ LET r == inflight[slot]
         ins == InsertVector(kb_vectors, r.caller,
                  [chunk_id |-> r.id, document_id |-> r.doc,
                   embedding |-> settings.ai_provider, approved_by |-> r.caller])
     IN IF ins.error # NULL
        THEN /\ inflight' = Done(slot, 500)
             /\ last' = Op("review", r.caller, r.id, r.arg, 500, NULL)
             /\ UNCHANGED kb_vectors
        ELSE /\ inflight' = [inflight EXCEPT ![slot].pc = "increment"]
             /\ kb_vectors' = ins.table
             /\ UNCHANGED last
  /\ nCalls' = nCalls + 1
  /\ UNCHANGED <<documents, chunks, settings, curator, auth>>
  /\ UNCHANGED profileVars

\* supabase.rpc('increment_approved_chunks' | 'increment_rejected_chunks',
\* {doc_id}) sent on its own; which is "approve" or "reject"
RpcBegin(slot, caller, which, doc_id) ==
  /\ inflight[slot].pc = "unused"
  /\ inflight' = [inflight EXCEPT ![slot] =
       [Unused EXCEPT !.pc = "increment", !.kind = "rpc", !.caller = caller,
                      !.doc = doc_id, !.arg = which, !.startedAt = nCalls + 1]]
  /\ nCalls' = nCalls + 1
  /\ UNCHANGED <<documents, chunks, kb_vectors, settings, curator, auth, last>>
  /\ UNCHANGED profileVars

\* increment_approved_chunks / increment_rejected_chunks: the UPDATE runs
\* on the committed row once no other transaction holds it; a violated
\* valid_chunks aborts the call
IncrementRun(slot) ==
  /\ inflight[slot].pc = "increment"
  /\ ~DocLocked(slot, inflight[slot].doc)
  /\ LET r == inflight[slot]
         inc == IF r.arg = "approve"
                THEN increment_approved_chunks(documents, r.caller, r.doc)
                ELSE increment_rejected_chunks(documents, r.caller, r.doc)
     IN IF inc.error # NULL
        THEN /\ inflight' = Done(slot, 500)
             /\ last' = Op(r.kind, r.caller, r.id, r.arg, 500, inc.error)
        ELSE /\ inflight' = [inflight EXCEPT ![slot].pc = "commit",
                                             ![slot].read = <<inc.table[r.doc]>>]
             /\ UNCHANGED last
  /\ nCalls' = nCalls + 1
  /\ UNCHANGED <<documents, chunks, kb_vectors, settings, curator, auth>>
  /\ UNCHANGED profileVars

\* the transaction of the increment commits and the request returns
IncrementCommit(slot) ==
  /\ inflight[slot].pc = "commit"
  /\ LET r == inflight[slot]
     IN /\ documents' = [documents EXCEPT ![r.doc] = r.read[1]]
        /\ last' = Op(r.kind, r.caller, r.id, r.arg, 200, NULL)
  /\ inflight' = Done(slot, 200)
  /\ nCalls' = nCalls + 1
  /\ UNCHANGED <<chunks, kb_vectors, settings, curator, auth>>
  /\ UNCHANGED profileVars

\* PUT /api/chunks/[id]/review up to the select: session, role gate, body
MetadataBegin(slot, caller, id, metadata) ==
  /\ inflight[slot].pc = "unused"
  /\ LET r == [Unused EXCEPT !.kind = "metadata", !.caller = caller, !.id = id, !.arg = metadata,
                            !.startedAt = nCalls + 1]
         started == [inflight EXCEPT ![slot] = r]
         status == IF caller = Anon \/ caller \notin RegisteredIds THEN 401
                   ELSE IF ~HandlerRoleGate(caller) THEN 403
                   ELSE IF metadata = NoMetadata THEN 400
                   ELSE 0
     IN IF status # 0
        THEN /\ inflight' = [started EXCEPT ![slot].pc = "done", ![slot].ret = status,
                                            ![slot].doneAt = nCalls + 1]
             /\ last' = Op("metadata", caller, id, metadata, status, NULL)
        ELSE /\ inflight' = [started EXCEPT ![slot].pc = "select"]
             /\ UNCHANGED last
  /\ nCalls' = nCalls + 1
  /\ UNCHANGED <<documents, chunks, kb_vectors, settings, curator, auth>>
  /\ UNCHANGED profileVars

\* the select of ai_metadata with .single()
MetadataSelect(slot) ==
  /\ inflight[slot].pc = "select"
  /\ LET r == inflight[slot]
     IN IF r.id \notin DOMAIN chunks \/ ~CuratorPolicy(r.caller)
        THEN /\ inflight' = Done(slot, 404)
             /\ last' = Op("metadata", r.caller, r.id, r.arg, 404, NULL)
        ELSE /\ inflight' = [inflight EXCEPT ![slot].pc = "write",
                                             ![slot].read = <<chunks[r.id].ai_metadata>>]
             /\ UNCHANGED last
  /\ nCalls' = nCalls + 1
  /\ UNCHANGED <<documents, chunks, kb_vectors, settings, curator, auth>>
  /\ UNCHANGED profileVars

\* the merge of the metadata read before with the supplied one, and the
\* update that stores it
MetadataWrite(slot) ==
  /\ inflight[slot].pc = "write"
  /\ LET r == inflight[slot]
         updatedMetadata == MergeMetadata(r.read[1], r.arg)
     IN /\ chunks' = IF r.id \in DOMAIN chunks /\ CuratorPolicy(r.caller)
                     THEN [chunks EXCEPT ![r.id].ai_metadata = updatedMetadata,
                                         ![r.id].metadata_edited = TRUE,
                                         ![r.id].metadata_edited_by = r.caller]
                     ELSE chunks
        /\ last' = Op("metadata", r.caller, r.id, r.arg, 200, updatedMetadata)
  /\ inflight' = [inflight EXCEPT ![slot].pc = "done", ![slot].ret = 200,
                                  ![slot].doneAt = nCalls + 1, ![slot].updatedAt = nCalls + 1]
  /\ nCalls' = nCalls + 1
  /\ UNCHANGED <<documents, kb_vectors, settings, curator, auth>>
  /\ UNCHANGED profileVars

\* A document in review with n chunks, all pending, their metadata stored;
\* an admin and an active curator review; no request is in progress.
InitRace ==
  /\ insertOwn = FALSE
  /\ fetchPc = [u \in Ids |-> 0]
  /\ authUsers = {[id |-> "a1", email |-> Mail, meta_name |-> NULL],
                  [id |-> "u2", email |-> Mail, meta_name |-> NULL]}
  /\ profiles = {[id |-> "a1", email |-> Mail, full_name |-> "", role |-> "admin", is_active |-> TRUE],
                 [id |-> "u2", email |-> Mail, full_name |-> "", role |-> "curator", is_active |-> TRUE]}
  /\ pgLog = {}
  /\ \E n \in RaceChunkIds :
       /\ documents = [d \in DocIds |->
            [processing_status |-> "review", total_chunks |-> n,
             approved_chunks |-> 0, rejected_chunks |-> 0]]
       /\ chunks = [c \in 1..n |->
            [document_id |-> "d1", chunk_index |-> c - 1, chunk_text |-> "text",
             review_status |-> "pending", reviewed_by |-> NULL, curator_notes |-> NULL,
             ai_metadata |-> [topic |-> "old", subtopic |-> "old"],
             metadata_edited |-> FALSE, metadata_edited_by |-> NULL]]
  /\ kb_vectors = <<>>
  /\ settings = [ai_provider |-> "gemini"]
  /\ nCalls = 0
  /\ inflight = [s \in RaceSlots |-> Unused]
  /\ curator = InitialCurator
  /\ auth = <<>>
  /\ last = NoOp

NextRace ==
  \/ \E s \in RaceSlots, c \in Ids, id \in RaceChunkIds, a \in {"approve", "reject"} :
       ReviewBegin(s, c, id, a)
  \/ \E s \in RaceSlots : ReviewUpdate(s)
  \/ \E s \in RaceSlots : ReviewInsert(s)
  \/ \E s \in RaceSlots, c \in Ids, w \in {"approve", "reject"}, d \in DocIds : RpcBegin(s, c, w, d)
  \/ \E s \in RaceSlots : IncrementRun(s)
  \/ \E s \in RaceSlots : IncrementCommit(s)
  \/ \E s \in RaceSlots, c \in Ids, id \in RaceChunkIds, m \in RaceMetadata :
       MetadataBegin(s, c, id, m)
  \/ \E s \in RaceSlots : MetadataSelect(s)
  \/ \E s \in RaceSlots : MetadataWrite(s)

SpecRace == InitRace /\ [][NextRace]_vars

\* ------------------------------------------------------------------------
\* AuthProvider: signIn and the auth-state listener
\* ------------------------------------------------------------------------

\* the identity that signs in
SignInId == "u2"

\* a fetchProfile call that has not started
NoFetch == [pc |-> "none", got |-> NoProfile]

\* useState(null) of user, profile and session; `client` is the session the
\* supabase client holds; `awaits` tells whether the client library waits for
\* the listeners it notifies before it goes on; signIn and listener are the
\* positions of signIn and of the listener's run for SIGNED_IN
SignedOut(awaits) ==
  [session |-> NULL, user |-> NULL, profile |-> NoProfile, client |-> Anon, awaits |-> awaits,
   signIn |-> NoFetch, listener |-> NoFetch, result |-> NULL]

\* the listener has nothing left to run
ListenerAtRest == auth.listener.pc \in {"none", "done"}

\* signIn may take its next step: a library that waits for its listeners
\* returns from signInWithPassword only after the listener has finished
SignInMayRun == auth.awaits => ListenerAtRest

\* signIn up to the return of signInWithPassword. A refusal returns the
\* failure; a success stores the session in the client and notifies the
\* listener with SIGNED_IN, which sets session and user and starts its own
\* fetchProfile
SignInPassword(valid) ==
  /\ auth.signIn.pc = "none"
  /\ IF ~valid
     THEN /\ auth' = [auth EXCEPT !.signIn.pc = "returned", !.result = "failure"]
          /\ last' = Op("signIn", SignInId, NULL, valid, "failure", NULL)
     ELSE /\ auth' = [auth EXCEPT !.client = SignInId,
                                  !.session = SignInId, !.user = SignInId,
                                  !.listener.pc = "select", !.signIn.pc = "select"]
          /\ UNCHANGED last
  /\ UNCHANGED <<inflight, curator>>
  /\ UNCHANGED profileVars
  /\ UNCHANGED reviewVars

\* fetchProfile of agent (signIn or the listener): the select of the own row
\* with .single(), as the session the client holds at that moment
AuthFetchSelect(agent) ==
  /\ auth[agent].pc = "select"
  /\ agent = "signIn" => SignInMayRun
  /\ LET visible == {r \in RowsOf(profiles, SignInId) : ProfilesSelectPolicy(profiles, auth.client, r)}
     IN auth' = IF visible # {}
                THEN [auth EXCEPT ![agent] = [pc |-> "ready", got |-> CHOOSE r \in visible : TRUE]]
                ELSE [auth EXCEPT ![agent].pc = "create"]
  /\ UNCHANGED <<inflight, curator, last>>
  /\ UNCHANGED profileVars
  /\ UNCHANGED reviewVars

\* fetchProfile of agent after PGRST116: getUser(), then the insert of the
\* default profile; no user, or an insert error, makes fetchProfile return null
AuthFetchCreate(agent) ==
  /\ auth[agent].pc = "create"
  /\ agent = "signIn" => SignInMayRun
  /\ IF auth.client # SignInId
     THEN /\ auth' = [auth EXCEPT ![agent] = [pc |-> "ready", got |-> NoProfile]]
          /\ UNCHANGED profiles
     ELSE LET user == AuthUser(SignInId)
              profileData == [id |-> user.id,
                              email |-> IF user.email = NULL THEN "" ELSE user.email,
                              full_name |-> MetaFullName(user),
                              role |-> "user", is_active |-> TRUE]
              ins == IF ProfilesInsertCheck(SignInId, profileData)
                     THEN InsertProfile(profiles, profileData)
                     ELSE [table |-> profiles, error |-> "rls"]
          IN /\ profiles' = ins.table
             /\ auth' = [auth EXCEPT ![agent] =
                  [pc |-> "ready", got |-> IF ins.error = NULL THEN profileData ELSE NoProfile]]
  /\ UNCHANGED <<authUsers, insertOwn, pgLog, fetchPc>>
  /\ UNCHANGED <<inflight, curator, last>>
  /\ UNCHANGED reviewVars

\* the listener's run for SIGNED_IN after its await: setProfile(profile)
ListenerSetProfile ==
  /\ auth.listener.pc = "ready"
  /\ auth' = [auth EXCEPT !.profile = auth.listener.got, !.listener.pc = "done"]
  /\ UNCHANGED <<inflight, curator, last>>
  /\ UNCHANGED profileVars
  /\ UNCHANGED reviewVars

\* signIn after its fetchProfile: an active profile returns success
SignInSuccess ==
  /\ auth.signIn.pc = "ready"
  /\ SignInMayRun
  /\ auth.signIn.got.is_active
  /\ auth' = [auth EXCEPT !.signIn.pc = "returned", !.result = "success"]
  /\ last' = Op("signIn", SignInId, NULL, TRUE, "success", auth.signIn.got.is_active)
  /\ UNCHANGED <<inflight, curator>>
  /\ UNCHANGED profileVars
  /\ UNCHANGED reviewVars

\* signIn after its fetchProfile, !profile?.is_active: supabase.auth.signOut()
\* removes the client's session and notifies the listener with SIGNED_OUT,
\* whose run sets session, user and profile to null without an await; then
\* signIn returns the failure
SignInSignOut ==
  /\ auth.signIn.pc = "ready"
  /\ SignInMayRun
  /\ ~auth.signIn.got.is_active
  /\ auth' = [auth EXCEPT !.client = Anon,
                          !.session = NULL, !.user = NULL, !.profile = NoProfile,
                          !.signIn.pc = "returned", !.result = "failure"]
  /\ last' = Op("signIn", SignInId, NULL, TRUE, "failure", auth.signIn.got.is_active)
  /\ UNCHANGED <<inflight, curator>>
  /\ UNCHANGED profileVars
  /\ UNCHANGED reviewVars

\* The admin and the identity that signs in are registered; that identity has
\* a profile of any role, active or not, or none; the insert policy for own
\* rows is installed or not; nobody is signed in.
InitAuth ==
  /\ authUsers = {[id |-> "a1", email |-> Mail, meta_name |-> NULL],
                  [id |-> SignInId, email |-> Mail, meta_name |-> NULL]}
  /\ \E own \in SUBSET {[id |-> SignInId, email |-> Mail, full_name |-> "", role |-> r, is_active |-> b] :
                         r \in Roles, b \in BOOLEAN} :
       /\ Cardinality(own) <= 1
       /\ profiles = {[id |-> "a1", email |-> Mail, full_name |-> "", role |-> "admin", is_active |-> TRUE]}
                       \cup own
  /\ insertOwn \in BOOLEAN
  /\ pgLog = {}
  /\ fetchPc = [u \in Ids |-> 0]
  /\ documents = <<>>
  /\ chunks = <<>>
  /\ kb_vectors = <<>>
  /\ settings = [ai_provider |-> "gemini"]
  /\ nCalls = 0
  /\ inflight = <<>>
  /\ curator = InitialCurator
  /\ \E awaits \in BOOLEAN : auth = SignedOut(awaits)
  /\ last = NoOp

NextAuth ==
  \/ \E valid \in BOOLEAN : SignInPassword(valid)
  \/ \E agent \in {"signIn", "listener"} : AuthFetchSelect(agent)
  \/ \E agent \in {"signIn", "listener"} : AuthFetchCreate(agent)
  \/ ListenerSetProfile
  \/ SignInSuccess
  \/ SignInSignOut

SpecAuth == InitAuth /\ [][NextAuth]_vars

\* ------------------------------------------------------------------------
\* Settings
\* ------------------------------------------------------------------------

\* settings.document_processor.processor
Processors == {"flowise", "direct_gemini"}

\* body.provider: undefined (NULL), a valid provider, or any other value
ProviderInputs == Providers \cup {NULL, "bogus"}

\* body.documentProcessor: undefined (NULL), a valid processor, or any other value
ProcessorInputs == Processors \cup {NULL, "bogus"}

\* Row level security of settings, INSERT: the schema creates the policies
\* "Anyone can view settings" (SELECT) and "Admins can update settings"
\* (UPDATE) and none for INSERT, so no row passes
SettingsInsertCheck(table, uid) == FALSE

\* UPDATE, USING (also applied to the new row): "Admins can update settings"
SettingsUpdateUsing(table, uid) == uid # Anon /\ is_admin(table, uid)

\* .from('settings').upsert({key, value}): INSERT ... ON CONFLICT (key) DO
\* UPDATE issued by uid. A key that is absent takes the INSERT path and needs
\* the INSERT policy. A key that is present takes the UPDATE path and needs
\* the UPDATE policy; whether the policy engine also holds the proposed row
\* against the INSERT policy on that path is insertCheckOnConflict.
UpsertSetting(table, uid, key, value, insertCheckOnConflict) ==
  IF key \notin DOMAIN table
  THEN IF SettingsInsertCheck(profiles, uid)
       THEN [table |-> table @@ (key :> value), error |-> NULL]
       ELSE [table |-> table, error |-> "rls"]
  ELSE IF insertCheckOnConflict /\ ~SettingsInsertCheck(profiles, uid)
       THEN [table |-> table, error |-> "rls"]
       ELSE IF ~SettingsUpdateUsing(profiles, uid)
       THEN [table |-> table, error |-> "rls"]
       ELSE [table |-> [table EXCEPT ![key] = value], error |-> NULL]

\* SettingsRoleGate letting every profile through
SettingsRoleGate_AnyProfile(caller) ==
  getCurrentUser(profiles, caller) # NoProfile

\* The role gate of the settings POST: select('role') of the caller's own
\* row, then profile?.role !== 'admin'
SettingsRoleGate(caller) ==
  LET profile == getCurrentUser(profiles, caller)
  IN profile # NoProfile /\ profile.role = "admin"

\* POST /api/admin/settings with body {provider, documentProcessor}
SettingsPOST(caller, provider, documentProcessor, insertCheckOnConflict) ==
  /\ IF caller = Anon \/ caller \notin RegisteredIds
     THEN /\ last' = Op("settingsPOST", caller, provider, documentProcessor, 401, NULL)
          /\ UNCHANGED settings
     ELSE IF ~SettingsRoleGate(caller)
     THEN /\ last' = Op("settingsPOST", caller, provider, documentProcessor, 403, NULL)
          /\ UNCHANGED settings
     ELSE IF provider # NULL /\ provider \notin Providers
     THEN /\ last' = Op("settingsPOST", caller, provider, documentProcessor, 400, NULL)
          /\ UNCHANGED settings
     ELSE LET first == IF provider = NULL
                       THEN [table |-> settings, error |-> NULL]
                       ELSE UpsertSetting(settings, caller, "ai_provider", provider,
                                          insertCheckOnConflict)
          IN IF first.error # NULL
             THEN /\ last' = Op("settingsPOST", caller, provider, documentProcessor, 500, first.error)
                  /\ settings' = first.table
             ELSE IF documentProcessor # NULL /\ documentProcessor \notin Processors
             THEN /\ last' = Op("settingsPOST", caller, provider, documentProcessor, 400, NULL)
                  /\ settings' = first.table
             ELSE LET second == IF documentProcessor = NULL
                                THEN [table |-> first.table, error |-> NULL]
                                ELSE UpsertSetting(first.table, caller, "document_processor",
                                                   documentProcessor, insertCheckOnConflict)
                  IN /\ settings' = second.table
                     /\ last' = Op("settingsPOST", caller, provider, documentProcessor,
                                   IF second.error # NULL THEN 500 ELSE 200, second.error)
  /\ UNCHANGED profileVars
  /\ UNCHANGED <<documents, chunks, kb_vectors, nCalls>>
  /\ UNCHANGED clientVars

\* The installation with two identities: the first admin, and a second
\* identity with any profile or none; the settings table as migrated, or
\* with the document_processor row added by the operator.
InitSettings ==
  /\ insertOwn = FALSE
  /\ fetchPc = [u \in Ids |-> 0]
  /\ \/ /\ authUsers = {[id |-> "a1", email |-> Mail, meta_name |-> NULL],
                        [id |-> "u2", email |-> NULL, meta_name |-> NULL]}
        /\ profiles = {[id |-> "a1", email |-> Mail, full_name |-> "", role |-> "admin", is_active |-> TRUE]}
        /\ pgLog = {"u2"}
     \/ /\ authUsers = {[id |-> "a1", email |-> Mail, meta_name |-> NULL],
                        [id |-> "u2", email |-> Mail, meta_name |-> NULL]}
        /\ \E row \in ReviewerRows :
             profiles = {[id |-> "a1", email |-> Mail, full_name |-> "", role |-> "admin", is_active |-> TRUE], row}
        /\ pgLog = {}
  /\ documents = <<>>
  /\ chunks = <<>>
  /\ kb_vectors = <<>>
  /\ \/ settings = [ai_provider |-> "gemini"]
     \/ \E p \in Processors : settings = [ai_provider |-> "gemini", document_processor |-> p]
  /\ nCalls = 0
  /\ last = NoOp
  /\ ClientsIdle

NextSettings ==
  \E c \in Callers, p \in ProviderInputs, d \in ProcessorInputs, e \in BOOLEAN :
    SettingsPOST(c, p, d, e)

SpecSettings == InitSettings /\ [][NextSettings]_vars

\* ------------------------------------------------------------------------
\* The operations reserved to admins
\* ------------------------------------------------------------------------

\* The first admin, a second identity with any profile or none, and the
\* settings as the setup leaves them.
InitAdminOps == InitSettings

NextAdminOps ==
  \/ \E c \in Callers, t \in Ids, r \in Roles : updateUserRole(c, t, r)
  \/ \E c \in Callers, t \in Ids, b \in BOOLEAN : setUserActiveStatus(c, t, b)
  \/ \E c \in Callers, p \in ProviderInputs, d \in ProcessorInputs, e \in BOOLEAN :
       SettingsPOST(c, p, d, e)

SpecAdminOps == InitAdminOps /\ [][NextAdminOps]_vars

\* ------------------------------------------------------------------------
\* Admin calls in progress at the same time
\* ------------------------------------------------------------------------

\* the calls that may be in progress at once
AdminSlots == {1, 2}

\* calls of one behaviour
MaxAdminCalls == 2

\* a slot without a call
Idle == [pc |-> "idle"]

\* the rows another call has written and not yet committed lock their ids
LockedIds(slot) ==
  {inflight[s].target : s \in {t \in DOMAIN inflight \ {slot} : inflight[t].pc = "written"}}

\* updateUserRole / setUserActiveStatus up to the point where the UPDATE is
\* sent: getCurrentUser(), the admin test and the test on the own id. field
\* is "role" or "is_active".
AdminCall(slot, caller, field, userId, value) ==
  /\ inflight[slot].pc = "idle"
  /\ nCalls < MaxAdminCalls
  /\ nCalls' = nCalls + 1
  /\ LET currentUser == getCurrentUser(profiles, caller)
         op == IF field = "role" THEN "updateUserRole" ELSE "setUserActiveStatus"
     IN IF currentUser.role # "admin"
        THEN /\ last' = Op(op, caller, userId, value, FALSE, "Only admins")
             /\ UNCHANGED inflight
        ELSE IF currentUser.id = userId /\ (field = "role" \/ value = FALSE)
        THEN /\ last' = Op(op, caller, userId, value, FALSE, "Cannot change yourself")
             /\ UNCHANGED inflight
        ELSE /\ inflight' = [inflight EXCEPT ![slot] =
                  [pc |-> "sent", op |-> op, caller |-> caller, target |-> userId,
                   field |-> field, value |-> value, rows |-> {}]]
             /\ UNCHANGED last
  /\ UNCHANGED <<documents, chunks, kb_vectors, settings, curator, auth>>
  /\ UNCHANGED profileVars

\* The UPDATE of a call runs in its own transaction (one request, READ
\* COMMITTED): the policies are evaluated on the committed rows, the new
\* row is written and stays invisible to other transactions until the
\* commit. A row written by another open transaction makes the statement
\* wait.
StatementRun(slot) ==
  /\ inflight[slot].pc = "sent"
  /\ inflight[slot].target \notin LockedIds(slot)
  /\ LET r == inflight[slot]
         upd == UpdateProfiles(profiles, r.caller, r.target, r.field, r.value)
     IN IF upd.error # NULL
        THEN /\ inflight' = [inflight EXCEPT ![slot] = Idle]
             /\ last' = Op(r.op, r.caller, r.target, r.value, FALSE, upd.error)
        ELSE /\ inflight' = [inflight EXCEPT ![slot].pc = "written",
                                             ![slot].rows = upd.table \ profiles]
             /\ UNCHANGED last
  /\ UNCHANGED <<documents, chunks, kb_vectors, settings, nCalls, curator, auth>>
  /\ UNCHANGED profileVars

\* the transaction commits, and the helper returns {success: true}
StatementCommit(slot) ==
  /\ inflight[slot].pc = "written"
  /\ LET r == inflight[slot]
     IN /\ profiles' = {p \in profiles : p.id \notin {w.id : w \in r.rows}} \cup r.rows
        /\ last' = Op(r.op, r.caller, r.target, r.value, TRUE, NULL)
  /\ inflight' = [inflight EXCEPT ![slot] = Idle]
  /\ UNCHANGED <<authUsers, insertOwn, pgLog, fetchPc>>
  /\ UNCHANGED <<documents, chunks, kb_vectors, settings, nCalls, curator, auth>>

\* The first admin is active; the second identity has any profile or none;
\* no call is in progress.
InitAdminRace ==
  /\ insertOwn = FALSE
  /\ fetchPc = [u \in Ids |-> 0]
  /\ \/ /\ authUsers = {[id |-> "a1", email |-> Mail, meta_name |-> NULL],
                        [id |-> "u2", email |-> NULL, meta_name |-> NULL]}
        /\ profiles = {[id |-> "a1", email |-> Mail, full_name |-> "", role |-> "admin", is_active |-> TRUE]}
        /\ pgLog = {"u2"}
     \/ /\ authUsers = {[id |-> "a1", email |-> Mail, meta_name |-> NULL],
                        [id |-> "u2", email |-> Mail, meta_name |-> NULL]}
        /\ \E row \in ReviewerRows :
             profiles = {[id |-> "a1", email |-> Mail, full_name |-> "", role |-> "admin", is_active |-> TRUE], row}
        /\ pgLog = {}
  /\ documents = <<>>
  /\ chunks = <<>>
  /\ kb_vectors = <<>>
  /\ settings = [ai_provider |-> "gemini"]
  /\ nCalls = 0
  /\ inflight = [s \in AdminSlots |-> Idle]
  /\ curator = InitialCurator
  /\ auth = <<>>
  /\ last = NoOp

NextAdminRace ==
  \/ \E s \in AdminSlots, c \in Callers, t \in Ids, r \in Roles : AdminCall(s, c, "role", t, r)
  \/ \E s \in AdminSlots, c \in Callers, t \in Ids, b \in BOOLEAN : AdminCall(s, c, "is_active", t, b)
  \/ \E s \in AdminSlots : StatementRun(s)
  \/ \E s \in AdminSlots : StatementCommit(s)

SpecAdminRace == InitAdminRace /\ [][NextAdminRace]_vars

\* ------------------------------------------------------------------------
\* Similarity search
\* ------------------------------------------------------------------------

\* Cosine distance (embedding <=> query_embedding) and similarity are kept
\* in tenths: distance 3 is 0.3, similarity 1 - 0.3 is Scale - 3 = 7.
Scale == 10

\* distances of the stored embeddings to the query embedding
Distances == {3, 5}

\* match_threshold values, in tenths (0.7 is the default)
Thresholds == {5, 7}

\* largest match_count of a query
MaxLimit == 2

\* positions of the rows of kb_vectors in a search
VectorSlots == {1, 2, 3}

\* kb_vectors.doc_type values in use
DocTypes == {"fhir", "vbc"}

\* a TEXT[] value that IS NULL (arrays are sets of strings)
NullArray == {NULL}

\* kb_vectors.use_cases values in use (a TEXT[] or NULL)
UseCases == {NullArray, {"a"}}

\* rows of kb_vectors as the search reads them: the embedding is stored in
\* the column of one provider, the other column is NULL
SearchRows ==
  {r \in [doc_type : DocTypes, use_cases : UseCases, embedding : Providers, dist : Distances] :
     r.doc_type = "fhir" \/ r.use_cases # NullArray}

\* the arguments of match_documents
Queries ==
  [match_threshold : Thresholds, match_count : 0..MaxLimit,
   filter_doc_type : {NULL, "fhir"}, filter_use_cases : {NullArray, {"a"}},
   provider : Providers]

\* embedding_<provider> IS NULL: the distance, the similarity and every
\* comparison made with them are NULL
EmbeddingIsNull(row, provider) == row.embedding # provider

\* 1 - (embedding_<provider> <=> query_embedding), for a stored embedding
Similarity(row, provider) == Scale - row.dist

\* the WHERE clause with >= in place of >
MatchesWhere_AtLeast(row, q) ==
  /\ (q.filter_doc_type = NULL \/ row.doc_type = q.filter_doc_type)
  /\ (q.filter_use_cases = NullArray
        \/ (row.use_cases # NullArray /\ row.use_cases \cap q.filter_use_cases # {}))
  /\ ~EmbeddingIsNull(row, q.provider)
  /\ Similarity(row, q.provider) >= q.match_threshold

\* the WHERE clause of match_documents
MatchesWhere(row, q) ==
  /\ (q.filter_doc_type = NULL \/ row.doc_type = q.filter_doc_type)
  /\ (q.filter_use_cases = NullArray
        \/ (row.use_cases # NullArray /\ row.use_cases \cap q.filter_use_cases # {}))
  /\ ~EmbeddingIsNull(row, q.provider)
  /\ Similarity(row, q.provider) > q.match_threshold

\* sequences without repetition over the positions in S, of length n
Arrangements(S, n) ==
  {r \in [1..n -> S] : \A i, j \in 1..n : i # j => r[i] # r[j]}

\* match_documents(query_embedding, ...): the rows that pass WHERE, ORDER BY
\* distance ascending, LIMIT match_count. Rows at the same distance come in
\* any order, so the value is the set of results the query may return.
match_documents(table, q) ==
  LET hits == {i \in DOMAIN table : MatchesWhere(table[i], q)}
      n == IF Cardinality(hits) < q.match_count THEN Cardinality(hits) ELSE q.match_count
  IN {r \in Arrangements(hits, n) :
        /\ \A i \in 1..n, j \in 1..n : i < j => table[r[i]].dist <= table[r[j]].dist
        /\ \A h \in hits : (\A i \in 1..n : r[i] # h) =>
             \A i \in 1..n : table[r[i]].dist <= table[h].dist}

\* a search request
Search(q) ==
  /\ \E r \in match_documents(kb_vectors, q) :
       last' = Op("search", NULL, NULL, q, r, NULL)
  /\ UNCHANGED profileVars
  /\ UNCHANGED reviewVars
  /\ UNCHANGED clientVars

\* a knowledge base of up to three vector records, each with the embedding
\* of one provider
InitSearch ==
  /\ insertOwn = FALSE
  /\ fetchPc = [u \in Ids |-> 0]
  /\ authUsers = {[id |-> "a1", email |-> Mail, meta_name |-> NULL]}
  /\ profiles = {[id |-> "a1", email |-> Mail, full_name |-> "", role |-> "admin", is_active |-> TRUE]}
  /\ pgLog = {}
  /\ documents = <<>>
  /\ chunks = <<>>
  /\ \E n \in {0} \cup VectorSlots : kb_vectors \in [1..n -> SearchRows]
  /\ settings = [ai_provider |-> "gemini"]
  /\ nCalls = 0
  /\ last = NoOp
  /\ ClientsIdle

NextSearch == \E q \in Queries : Search(q)

SpecSearch == InitSearch /\ [][NextSearch]_vars

\* ------------------------------------------------------------------------
\* Properties
\* ------------------------------------------------------------------------

\* The table of section 4.1: <<actual role, required role>> pairs that satisfy
SatisfiesTable ==
  {<<"admin", "admin">>, <<"admin", "curator">>, <<"admin", "user">>,
   <<"curator", "curator">>, <<"curator", "user">>,
   <<"user", "user">>}

\* C1: a role check (hasRole on the server, has_role in SQL) is true exactly
\* when the caller has a profile, the profile is active and its role
\* satisfies the required role by the table; it is false for an inactive
\* profile and for a caller without profile.
C1_RoleCheckMatchesTable ==
  last.op = "hasRole" =>
    LET expected == \E p \in RowsOf(profiles, last.actor) :
                      p.is_active /\ <<p.role, last.arg>> \in SatisfiesTable
    IN last.ret = expected /\ last.ret2 = expected

C1_Witness ==
  /\ last.op = "hasRole"
  /\ last.arg = "user"
  /\ last.ret = TRUE
  /\ last.ret2 = TRUE
  /\ \E p \in RowsOf(profiles, last.actor) : p.role = "curator" /\ p.is_active

\* the caller of a review holds an active curator or admin profile
ActiveReviewer(uid) ==
  \E p \in RowsOf(profiles, uid) : p.is_active /\ p.role \in {"curator", "admin"}

\* what a review may change: review_status of the chunks, the counters of
\* the documents, the vector records
ReviewState ==
  <<[c \in DOMAIN chunks |-> chunks[c].review_status],
    [d \in DOMAIN documents |-> <<documents[d].approved_chunks, documents[d].rejected_chunks>>],
    kb_vectors>>

\* C2: review_status, the document counters and the vector records change
\* only in a review request of a caller whose profile is curator or admin
\* and active; a request of any other caller does not succeed and changes
\* none of them.
C2_ReviewNeedsActiveCurator ==
  [][ /\ ReviewState' # ReviewState => (last'.op = "review" /\ ActiveReviewer(last'.actor))
      /\ (last'.op = "review" /\ ~ActiveReviewer(last'.actor)) =>
           (last'.ret # 200 /\ ReviewState' = ReviewState) ]_vars

C2_Witness ==
  /\ last.op = "review"
  /\ last.arg = "approve"
  /\ last.ret # 200
  /\ \E p \in RowsOf(profiles, last.actor) : p.role = "curator" /\ ~p.is_active
  /\ \A c \in DOMAIN chunks : chunks[c].review_status = "pending"

\* C3: a document whose chunks all started pending is completed exactly in
\* the states where the number of its chunks in a terminal review status has
\* reached total_chunks; with fewer terminal chunks it is still in review.
C3_CompletedExactlyWhenAllReviewed ==
  \A d \in DOMAIN documents :
    /\ documents[d].processing_status \in {"review", "completed"}
    /\ documents[d].processing_status = "completed"
         <=> ReviewedCount(chunks, d) >= documents[d].total_chunks

C3_Witness ==
  \E d \in DOMAIN documents :
    /\ documents[d].total_chunks = MaxChunks
    /\ ReviewedCount(chunks, d) = MaxChunks
    /\ documents[d].processing_status = "completed"
    /\ nCalls = MaxChunks

\* C4: approved_chunks + rejected_chunks <= total_chunks for every document,
\* in every state approve and reject calls can reach.
C4_CountersWithinTotal ==
  \A d \in DOMAIN documents :
    documents[d].approved_chunks + documents[d].rejected_chunks <= documents[d].total_chunks

VectorsOf(chunk_id) == {i \in 1..Len(kb_vectors) : kb_vectors[i].chunk_id = chunk_id}

\* C5: an approve that succeeds has added one vector record for its chunk
\* with the embedding of the configured provider, and after a review request
\* that succeeds no chunk has more than one vector record.
C5_OneVectorPerChunk ==
  (last.op = "review" /\ last.ret = 200) =>
    /\ last.arg = "approve" =>
         /\ Len(kb_vectors) > 0
         /\ kb_vectors[Len(kb_vectors)].chunk_id = last.target
         /\ kb_vectors[Len(kb_vectors)].embedding = settings.ai_provider
    /\ \A c \in DOMAIN chunks : Cardinality(VectorsOf(c)) <= 1

\* C6: every vector record belongs to a chunk whose review_status is approved.
C6_VectorsOnlyForApproved ==
  \A i \in 1..Len(kb_vectors) :
    chunks[kb_vectors[i].chunk_id].review_status = "approved"

\* C7: updateUserRole and setUserActiveStatus fail and change no profile when
\* the caller is not an admin, when an admin names itself in updateUserRole,
\* and when an admin deactivates itself; in every other case the call
\* returns success, and the update of an active admin on an existing profile
\* is written.
C7_AdminGuards ==
  [][ last'.op \in {"updateUserRole", "setUserActiveStatus"} =>
        LET actorRows == RowsOf(profiles, last'.actor)
            isAdminRole == \E p \in actorRows : p.role = "admin"
            activeAdmin == \E p \in actorRows : p.role = "admin" /\ p.is_active
            self == last'.actor = last'.target
            refused == \/ ~isAdminRole
                       \/ last'.op = "updateUserRole" /\ self
                       \/ last'.op = "setUserActiveStatus" /\ self /\ last'.arg = FALSE
        IN /\ refused => (last'.ret = FALSE /\ profiles' = profiles)
           /\ ~refused => last'.ret = TRUE
           /\ (~refused /\ activeAdmin) =>
                \A t \in RowsOf(profiles', last'.target) :
                  IF last'.op = "updateUserRole" THEN t.role = last'.arg
                                                 ELSE t.is_active = last'.arg ]_vars

C7_Witness ==
  /\ last.op = "updateUserRole"
  /\ last.actor = last.target
  /\ last.ret = FALSE
  /\ \E p \in RowsOf(profiles, last.actor) : p.role = "admin" /\ p.is_active

\* role and is_active of the profile of id, NULL without profile
RoleAndActive(table, id) ==
  IF RowsOf(table, id) = {} THEN NULL
  ELSE LET p == ProfileOf(table, id) IN <<p.role, p.is_active>>

\* C8: role and is_active of an existing profile change only in a step
\* taken by a caller whose role is admin.
C8_OnlyAdminChangesRole ==
  [][ (\E id \in Ids : /\ RowsOf(profiles, id) # {}
                       /\ RoleAndActive(profiles', id) # RoleAndActive(profiles, id))
        => \E p \in RowsOf(profiles, last'.actor) : p.role = "admin" ]_vars

\* at most one profile per identity
AtMostOneProfile == \A id \in Ids : Cardinality(RowsOf(profiles, id)) <= 1

\* a step of the signup trigger or of the creation fallback of fetchProfile
CreationAttempt(l) ==
  \/ l.op = "signUp"
  \/ l.op = "fetchProfile" /\ l.ret \in {"created", "null"}

\* C9 as stated: a creation attempt changes nothing when the identity has a
\* profile, and otherwise creates exactly one profile.
C9_CreatesExactlyOne ==
  [][ CreationAttempt(last') =>
        IF RowsOf(profiles, last'.actor) # {}
        THEN profiles' = profiles
        ELSE Cardinality(profiles' \ profiles) = 1 ]_vars

\* C9 (amended): a creation attempt changes nothing when the identity has a
\* profile or when its insert fails; otherwise it adds exactly one profile,
\* for that identity, with role user and is_active true. No attempt removes
\* or rewrites an existing profile, and there is at most one profile per
\* identity in every state.
C9_CreationIdempotent ==
  /\ []AtMostOneProfile
  /\ [][ CreationAttempt(last') =>
           LET id == last'.actor
               failed == IF last'.op = "signUp" THEN id \in pgLog' ELSE last'.ret = "null"
           IN /\ profiles \subseteq profiles'
              /\ (RowsOf(profiles, id) # {} \/ failed) => profiles' = profiles
              /\ (RowsOf(profiles, id) = {} /\ ~failed) =>
                   /\ Cardinality(profiles' \ profiles) = 1
                   /\ \A r \in profiles' \ profiles :
                        r.id = id /\ r.role = "user" /\ r.is_active ]_vars

C9_Witness ==
  /\ last.op = "fetchProfile"
  /\ last.ret = "null"
  /\ last.ret2 = "duplicate_key"
  /\ \E p \in RowsOf(profiles, last.actor) : p.role = "curator"

\* C10: when the insert of the profile row fails during a registration, the
\* registration completes (the identity exists), the failure is in the log
\* and the registration reports no error.
C10_SignupSurvivesProfileFailure ==
  last.op = "signUp" =>
    /\ last.ret = "ok"
    /\ last.actor \in RegisteredIds
    /\ RowsOf(profiles, last.actor) = {} => last.actor \in pgLog

C10_Witness ==
  /\ last.op = "signUp"
  /\ last.arg = NULL
  /\ last.ret = "ok"
  /\ last.actor \in RegisteredIds
  /\ last.actor \in pgLog
  /\ RowsOf(profiles, last.actor) = {}

ValidSettings ==
  /\ settings["ai_provider"] \in Providers
  /\ "document_processor" \in DOMAIN settings => settings["document_processor"] \in Processors

\* C12: the settings hold valid values in every state; a setting changes
\* only in a settings POST of a caller whose profile role is admin; a
\* request without session is answered 401 and one of a caller whose role is
\* not admin 403, both with the settings unchanged.
C12_SettingsWrittenByAdminOnly ==
  /\ []ValidSettings
  /\ [][ /\ settings' # settings =>
              /\ last'.op = "settingsPOST"
              /\ \E p \in RowsOf(profiles, last'.actor) : p.role = "admin"
         /\ (last'.op = "settingsPOST" /\ last'.actor = Anon) =>
              (last'.ret = 401 /\ settings' = settings)
         /\ (last'.op = "settingsPOST" /\ last'.actor # Anon
               /\ ~\E p \in RowsOf(profiles, last'.actor) : p.role = "admin") =>
              (last'.ret = 403 /\ settings' = settings) ]_vars

C12_Witness ==
  /\ last.op = "settingsPOST"
  /\ last.ret = 200
  /\ last.target = "openai"
  /\ settings["ai_provider"] = "openai"
  /\ \E p \in RowsOf(profiles, last.actor) : p.role = "admin" /\ p.is_active


\* the result of a search is, for the comparison cmp of similarity and
\* threshold: rows that pass the filters and the comparison, without
\* repetition, in descending order of similarity, the best match_count of
\* them (all of them when there are fewer)
SearchResultIs(AtLeast) ==
  LET q == last.arg
      r == last.ret
      ok(i) == /\ (q.filter_doc_type = NULL \/ kb_vectors[i].doc_type = q.filter_doc_type)
               /\ (q.filter_use_cases = NullArray
                     \/ (kb_vectors[i].use_cases # NullArray
                           /\ kb_vectors[i].use_cases \cap q.filter_use_cases # {}))
               /\ ~EmbeddingIsNull(kb_vectors[i], q.provider)
               /\ IF AtLeast THEN Similarity(kb_vectors[i], q.provider) >= q.match_threshold
                             ELSE Similarity(kb_vectors[i], q.provider) > q.match_threshold
      good == {i \in DOMAIN kb_vectors : ok(i)}
      sim(i) == Similarity(kb_vectors[i], q.provider)
  IN /\ \A k \in DOMAIN r : r[k] \in good
     /\ \A k, m \in DOMAIN r : k < m => (r[k] # r[m] /\ sim(r[k]) >= sim(r[m]))
     /\ Len(r) = (IF Cardinality(good) < q.match_count THEN Cardinality(good) ELSE q.match_count)
     /\ \A g \in good : (\A k \in DOMAIN r : r[k] # g) =>
          \A k \in DOMAIN r : sim(r[k]) >= sim(g)

\* C13 as stated: the result is the first match_count records, by descending
\* similarity, of those that pass the filters with similarity >= threshold.
C13_SearchAtLeastThreshold ==
  last.op = "search" => SearchResultIs(TRUE)

\* C13 (amended): the result is the first match_count records, by
\* descending similarity, of those that pass the filters with similarity
\* strictly above the threshold; a record whose similarity equals the
\* threshold is not returned; the result never holds more than match_count
\* records.
C13_SearchAboveThreshold ==
  last.op = "search" =>
    /\ SearchResultIs(FALSE)
    /\ Len(last.ret) <= last.arg.match_count
    /\ \A k \in DOMAIN last.ret :
         Similarity(kb_vectors[last.ret[k]], last.arg.provider) > last.arg.match_threshold

C13_Witness ==
  /\ last.op = "search"
  /\ Len(kb_vectors) = 3
  /\ last.arg.match_count = 1
  /\ last.arg.match_threshold = 5
  /\ Len(last.ret) = 1
  /\ \E i \in DOMAIN kb_vectors :
       /\ ~EmbeddingIsNull(kb_vectors[i], last.arg.provider)
       /\ Similarity(kb_vectors[i], last.arg.provider) = 5
  /\ Cardinality({i \in DOMAIN kb_vectors : MatchesWhere(kb_vectors[i], last.arg)}) = 2


\* the review_status of chunks 1, 2, 3 of a document of three chunks
StatusesAre(s1, s2, s3) ==
  /\ DOMAIN chunks = {1, 2, 3}
  /\ chunks[1].review_status = s1
  /\ chunks[2].review_status = s2
  /\ chunks[3].review_status = s3

\* status, approved_chunks, rejected_chunks of d1
DocIs(status, approved, rejected) ==
  /\ documents["d1"].processing_status = status
  /\ documents["d1"].approved_chunks = approved
  /\ documents["d1"].rejected_chunks = rejected

\* C14: a document with total_chunks = 3 in review: after approve(chunk 1)
\* it is in review with approved_chunks = 1; after reject(chunk 2) it is in
\* review with approved 1, rejected 1; after approve(chunk 3) it is
\* completed with approved 2, rejected 1 and exactly 2 vector records.
C14_ThreeChunkScenario ==
  (documents["d1"].total_chunks = 3 /\ last.op = "review") =>
    /\ (nCalls = 1 /\ last.target = 1 /\ last.arg = "approve") =>
         /\ last.ret = 200
         /\ StatusesAre("approved", "pending", "pending")
         /\ DocIs("review", 1, 0)
    /\ (nCalls = 2 /\ last.target = 2 /\ last.arg = "reject"
          /\ chunks[1].review_status = "approved") =>
         /\ last.ret = 200
         /\ StatusesAre("approved", "rejected", "pending")
         /\ DocIs("review", 1, 1)
    /\ (nCalls = 3 /\ last.target = 3 /\ last.arg = "approve"
          /\ chunks[1].review_status = "approved"
          /\ chunks[2].review_status = "rejected") =>
         /\ last.ret = 200
         /\ StatusesAre("approved", "rejected", "approved")
         /\ DocIs("completed", 2, 1)
         /\ Len(kb_vectors) = 2

C14_Witness ==
  /\ documents["d1"].total_chunks = 3
  /\ last.op = "review" /\ last.target = 3 /\ last.arg = "approve" /\ last.ret = 200
  /\ nCalls = 3
  /\ StatusesAre("approved", "rejected", "approved")
  /\ DocIs("completed", 2, 1)
  /\ Len(kb_vectors) = 2


\* C18: a document whose processing_status is failed keeps that status in
\* every step; no approve or reject and no completion check moves it on.
C18_FailedIsTerminal ==
  [][ \A d \in DOMAIN documents :
        documents[d].processing_status = "failed" =>
          documents'[d].processing_status = "failed" ]_vars

\* C19: the step in which a chunk of a document in review becomes filtered
\* and brings the number of terminal chunks of the document up to
\* total_chunks leaves the document completed.
C19_FilteredCompletes ==
  [][ (last'.op = "filter"
         /\ documents["d1"].processing_status = "review"
         /\ chunks[last'.target].review_status # "filtered"
         /\ chunks'[last'.target].review_status = "filtered"
         /\ ReviewedCount(chunks, "d1") < documents["d1"].total_chunks
         /\ ReviewedCount(chunks', "d1") >= documents["d1"].total_chunks)
        => documents'["d1"].processing_status = "completed" ]_vars


\* C20: in every step approved_chunks grows by 1 when a chunk's
\* review_status changes into approved and stays as it is otherwise, and
\* rejected_chunks likewise for rejected; a review request that does not
\* change the chunk's status changes neither counter, and no counter
\* decreases.
C20_CountersFollowTransitions ==
  [][ LET into(st) == {c \in DOMAIN chunks :
                         /\ chunks[c].review_status # st
                         /\ chunks'[c].review_status = st}
      IN /\ documents'["d1"].approved_chunks =
              documents["d1"].approved_chunks + Cardinality(into("approved"))
         /\ documents'["d1"].rejected_chunks =
              documents["d1"].rejected_chunks + Cardinality(into("rejected")) ]_vars

\* ------------------------------------------------------------------------
\* C15
\* ------------------------------------------------------------------------

\* the requester has a valid session
HasSession(uid) == uid # Anon /\ \E u \in authUsers : u.id = uid

\* the requester has a profile whose role is curator or admin
HasReviewerRole(uid) ==
  \E p \in profiles : p.id = uid /\ p.role \in {"curator", "admin"}

\* the body of request r is invalid
InvalidBody(r) ==
  IF r.op = "review" THEN r.arg \notin {"approve", "reject"}
  ELSE IF r.op = "metadata" THEN r.arg = NoMetadata
  ELSE ~r.arg.file \/ ~r.arg.title \/ ~r.arg.documentType

\* the response the ordered checks give request r in the current state;
\* 0 when every check passes
FirstFailure(r) ==
  IF ~HasSession(r.actor) THEN 401
  ELSE IF ~HasReviewerRole(r.actor) THEN 403
  ELSE IF InvalidBody(r) THEN 400
  ELSE IF r.op = "metadata" /\ r.target \notin DOMAIN chunks THEN 404
  ELSE 0

\* C15: the review, metadata and upload handlers answer with the first
\* failing check in the order 401 (no session), 403 (no profile or a role
\* outside {curator, admin}), 400 (invalid body), 404 (metadata handler,
\* chunk absent), give none of 401, 403, 400 when that check passes, and
\* with any of these four responses documents, chunks and vectors are as
\* they were before the request.
C15_ChecksInOrder ==
  [][last'.op \in {"review", "metadata", "upload"}
       => /\ FirstFailure(last') # 0 => last'.ret = FirstFailure(last')
          /\ last'.ret \in {401, 403, 400} => last'.ret = FirstFailure(last')
          /\ last'.ret \in {401, 403, 400, 404}
               => /\ documents' = documents
                  /\ chunks' = chunks
                  /\ kb_vectors' = kb_vectors]_vars

\* a curator's metadata request with a valid body for a chunk that does not
\* exist was answered 404
C15_Witness ==
  /\ last.op = "metadata"
  /\ last.ret = 404
  /\ HasReviewerRole(last.actor)
  /\ last.arg # NoMetadata
  /\ last.target \notin DOMAIN chunks

\* ------------------------------------------------------------------------
\* C16
\* ------------------------------------------------------------------------

\* every supplied key with the supplied value, every other existing key with
\* its old value
ShallowMerge(existing, partial) ==
  [k \in DOMAIN existing \cup DOMAIN partial |->
     IF k \in DOMAIN partial THEN partial[k] ELSE existing[k]]

\* m with the key last_updated set to the time of the edit
Stamped(m) ==
  [k \in DOMAIN m \cup {"last_updated"} |-> IF k = "last_updated" THEN Now ELSE m[k]]

\* the step is a successful metadata edit
IsMetadataEdit == last'.op = "metadata" /\ last'.ret = 200 /\ last' # last

\* what a metadata edit sets besides ai_metadata, and what it leaves alone
EditFrame ==
  LET id == last'.target
  IN /\ DOMAIN chunks' = DOMAIN chunks
     /\ chunks'[id].metadata_edited = TRUE
     /\ chunks'[id].metadata_edited_by = last'.actor
     /\ chunks'[id].review_status = chunks[id].review_status
     /\ chunks'[id].chunk_text = chunks[id].chunk_text
     /\ chunks'[id].chunk_index = chunks[id].chunk_index
     /\ chunks'[id].reviewed_by = chunks[id].reviewed_by
     /\ chunks'[id].curator_notes = chunks[id].curator_notes
     /\ \A c \in DOMAIN chunks \ {id} : chunks'[c] = chunks[c]
     /\ documents' = documents
     /\ kb_vectors' = kb_vectors

\* C16 as stated: a metadata edit sets ai_metadata to the shallow merge of
\* the existing ai_metadata with the supplied partial metadata, sets
\* metadata_edited and metadata_edited_by, and changes nothing else.
C16_EditIsShallowMerge ==
  [][IsMetadataEdit
       => /\ chunks'[last'.target].ai_metadata
                = ShallowMerge(chunks[last'.target].ai_metadata, last'.arg)
          /\ EditFrame]_vars

\* C16: a metadata edit sets ai_metadata to the shallow merge of the
\* existing ai_metadata with the supplied partial metadata and then sets its
\* key last_updated to the time of the edit, over a supplied or an existing
\* last_updated; it sets metadata_edited = true and metadata_edited_by to
\* the caller, and leaves unchanged the chunk's review_status, chunk_text,
\* chunk_index, reviewed_by and curator_notes, the other chunks, the
\* documents and the vector records.
C16_EditIsStampedMerge ==
  [][IsMetadataEdit
       => /\ chunks'[last'.target].ai_metadata
                = Stamped(ShallowMerge(chunks[last'.target].ai_metadata, last'.arg))
          /\ EditFrame]_vars

\* an edit that supplied topic only: topic is new, subtopic kept
C16_Witness ==
  /\ last.op = "metadata"
  /\ last.ret = 200
  /\ DOMAIN last.arg = {"topic"}
  /\ chunks[last.target].metadata_edited
  /\ chunks[last.target].ai_metadata.topic = "new"
  /\ chunks[last.target].ai_metadata.subtopic = "old"

\* ------------------------------------------------------------------------
\* C17
\* ------------------------------------------------------------------------

C22_IndexInsideList ==
  IF curator.chunksLength = 0
  THEN curator.currentChunkIndex = 0
  ELSE curator.currentChunkIndex >= 0 /\ curator.currentChunkIndex < curator.chunksLength

\* ------------------------------------------------------------------------
\* C23
\* ------------------------------------------------------------------------

\* C23: isComplete is true exactly when pending = 0 and total > 0; progress
\* is (approved + rejected) / total when total > 0 and 0 when total = 0;
\* without a document the statistics are all zero, isComplete is false and
\* progress is 0.
C23_CompleteAndProgress ==
  LET st == curator.stats
      p == progress(st)
  IN /\ isComplete(st) <=> (st.pending = 0 /\ st.total > 0)
     /\ p[2] > 0
     /\ st.total > 0 => p[1] * st.total = (st.approved + st.rejected) * p[2]
     /\ st.total = 0 => p[1] = 0
     /\ ~curator.loaded => st = ZeroStats /\ ~isComplete(st) /\ p[1] = 0

\* a refresh has delivered statistics with nothing pending and a total of 0
C23_Witness ==
  /\ last.op = "refreshed"
  /\ last.ret = TRUE
  /\ curator.stats.pending = 0
  /\ curator.stats.total = 0
  /\ curator.stats.approved > 0

\* ------------------------------------------------------------------------
\* C24
\* ------------------------------------------------------------------------

\* C24: hasRole, has_role and isRole give the same result for every role,
\* required role and is_active, namely the one of the table for an active
\* profile and false otherwise; isAdmin and is_admin equal the check for
\* admin, isCuratorOrAdmin and is_curator_or_admin the check for curator;
\* requireCurator and requireAdmin let a profile through exactly when the
\* check for curator, for admin, is true.
C24_RoleChecksAgree ==
  LET expected(required) ==
        \E p \in RowsOf(profiles, last.actor) :
          p.is_active /\ <<p.role, required>> \in SatisfiesTable
  IN /\ last.op = "roleChecks"
          => /\ last.ret.hasRole = expected(last.arg)
             /\ last.ret.has_role = expected(last.arg)
             /\ last.ret.isRole = expected(last.arg)
     /\ last.op = "adminGuards"
          => /\ last.ret.isAdmin = expected("admin")
             /\ last.ret.is_admin = expected("admin")
             /\ last.ret.contextIsAdmin = expected("admin")
             /\ (last.ret.requireAdmin = "pass") = expected("admin")
             /\ expected("admin") = hasRole(profiles, last.actor, "admin")
     /\ last.op = "curatorGuards"
          => /\ last.ret.isCuratorOrAdmin = expected("curator")
             /\ last.ret.is_curator_or_admin = expected("curator")
             /\ last.ret.isCurator = expected("curator")
             /\ (last.ret.requireCurator = "pass") = expected("curator")
             /\ expected("curator") = hasRole(profiles, last.actor, "curator")

\* the guards for curator were asked for an inactive curator
C24_Witness ==
  /\ last.op = "curatorGuards"
  /\ \E p \in RowsOf(profiles, last.actor) : p.role = "curator" /\ ~p.is_active
  /\ last.ret.requireCurator = "/login?error=inactive"
  /\ ~last.ret.isCurator

\* ------------------------------------------------------------------------
\* C25
\* ------------------------------------------------------------------------

\* every vector record references a stored chunk and a stored document,
\* every chunk a stored document
ReferencesHold ==
  /\ \A i \in 1..Len(kb_vectors) :
       /\ kb_vectors[i].chunk_id \in DOMAIN chunks
       /\ kb_vectors[i].document_id \in DOMAIN documents
  /\ \A c \in DOMAIN chunks : chunks[c].document_id \in DOMAIN documents

\* C25: every vector record references an existing chunk and an existing
\* document and every chunk an existing document; a step that deletes a
\* document deletes its chunks and their vector records with it; documents
\* and vector records are deleted only in a step of a caller whose profile
\* is admin and active.
C25_ReferencesAndAdminDelete ==
  /\ []ReferencesHold
  /\ [][/\ \A d \in DOMAIN documents \ DOMAIN documents' :
             /\ \A c \in DOMAIN chunks' : chunks'[c].document_id # d
             /\ \A i \in 1..Len(kb_vectors') :
                  /\ kb_vectors'[i].document_id # d
                  /\ kb_vectors'[i].chunk_id \notin ChunksOf(chunks, d)
        /\ (DOMAIN documents' # DOMAIN documents \/ Len(kb_vectors') < Len(kb_vectors))
             => \E p \in RowsOf(profiles, last'.actor) : p.role = "admin" /\ p.is_active]_vars

\* the admin has deleted a document that had an approved chunk with its
\* vector record
C25_Witness ==
  /\ last.op = "deleteDocument"
  /\ last.ret = 1
  /\ last.ret2 > 0
  /\ \A c \in DOMAIN chunks : chunks[c].document_id # last.target

\* ------------------------------------------------------------------------
\* C27
\* ------------------------------------------------------------------------

\* the operation recorded in r did not succeed
Failed(r) ==
  IF r.op = "settingsPOST" THEN r.ret # 200 ELSE r.ret = FALSE

\* C27: updateUserRole, setUserActiveStatus and the settings POST issued by
\* a caller whose profile has role admin and is_active = false fail and
\* change no profile and no setting.
C27_InactiveAdminHasNoPower ==
  [][(/\ last'.op \in {"updateUserRole", "setUserActiveStatus", "settingsPOST"}
      /\ \E p \in RowsOf(profiles, last'.actor) : p.role = "admin" /\ ~p.is_active)
       => /\ Failed(last')
          /\ profiles' = profiles
          /\ settings' = settings]_vars

\* ------------------------------------------------------------------------
\* C26
\* ------------------------------------------------------------------------

\* C26: from a state with an active admin, after any sequence or
\* interleaving of updateUserRole and setUserActiveStatus calls at least one
\* profile with role admin and is_active = true exists.
C26_AnActiveAdminRemains ==
  \E p \in profiles : p.role = "admin" /\ p.is_active

\* Two requests of the kind given, both returned, that were in progress at the
\* same time; s is the one whose write was applied first
RacePair(s, t, kind) ==
  /\ s # t
  /\ inflight[s].kind = kind /\ inflight[t].kind = kind
  /\ inflight[s].pc = "done" /\ inflight[t].pc = "done"
  /\ inflight[s].id = inflight[t].id
  /\ 0 < inflight[s].updatedAt /\ inflight[s].updatedAt < inflight[t].updatedAt
  /\ inflight[s].startedAt < inflight[t].doneAt
  /\ inflight[t].startedAt < inflight[s].doneAt

\* the requests among those of slots that asked for action and returned 200
Counted(slots, action) ==
  Cardinality({x \in slots : inflight[x].arg = action /\ inflight[x].ret = 200})

\* the chunk carries what the later update wrote
LastWriterWins(t) ==
  /\ chunks[inflight[t].id].review_status =
       (IF inflight[t].arg = "approve" THEN "approved" ELSE "rejected")
  /\ chunks[inflight[t].id].reviewed_by = inflight[t].caller

\* C21 as stated: two curators' concurrent review requests for the same chunk
\* both succeed, the chunk holds the status and reviewer of the update applied
\* last, and the counters hold the increments of both.
C21_BothSucceedBothCounted ==
  \A s, t \in RaceSlots :
    (RacePair(s, t, "review") /\ inflight[s].caller # inflight[t].caller) =>
      /\ inflight[s].ret = 200 /\ inflight[t].ret = 200
      /\ LastWriterWins(t)
      /\ documents[inflight[s].doc].approved_chunks = Counted({s, t}, "approve")
      /\ documents[inflight[s].doc].rejected_chunks = Counted({s, t}, "reject")

\* C21, amended: two concurrent review requests for the same chunk, of two
\* curators or of one, are not mutually excluded. The chunk holds the status and reviewer of the
\* update applied last; each request returns 200 with its increment applied,
\* except an approval whose increment would raise approved_chunks above
\* total_chunks: that one returns 500, its increment not applied.
C21_LastWriterWinsCountedUnlessFull ==
  \A s, t \in RaceSlots :
    RacePair(s, t, "review") =>
      LET doc == documents[inflight[s].doc]
      IN /\ LastWriterWins(t)
         /\ doc.approved_chunks = Counted({s, t}, "approve")
         /\ doc.rejected_chunks = Counted({s, t}, "reject")
         /\ \A x \in {s, t} :
              \/ inflight[x].ret = 200
              \/ /\ inflight[x].ret = 500
                 /\ inflight[x].arg = "approve"
                 /\ doc.approved_chunks = doc.total_chunks

\* two curators' overlapping requests for one chunk have both returned 200 and
\* the chunk is counted twice
C21_Witness ==
  \E s, t \in RaceSlots :
    /\ RacePair(s, t, "review")
    /\ inflight[s].caller # inflight[t].caller
    /\ inflight[s].ret = 200 /\ inflight[t].ret = 200
    /\ inflight[t].updatedAt < inflight[s].doneAt
    /\ documents[inflight[s].doc].approved_chunks
         + documents[inflight[s].doc].rejected_chunks = 2

\* C28: two concurrent metadata edits of one chunk with disjoint keys that
\* both succeed leave the supplied values of both in ai_metadata.
C28_BothEditsKept ==
  \A s, t \in RaceSlots :
    ( /\ RacePair(s, t, "metadata")
      /\ inflight[s].ret = 200 /\ inflight[t].ret = 200
      /\ DOMAIN inflight[s].arg \cap DOMAIN inflight[t].arg = {} )
    => \A x \in {s, t} : \A k \in DOMAIN inflight[x].arg :
         chunks[inflight[s].id].ai_metadata[k] = inflight[x].arg[k]

\* the increment calls for document d that returned without error
Incremented(d, which) ==
  Cardinality({x \in RaceSlots :
    /\ inflight[x].kind \in {"review", "rpc"} /\ inflight[x].doc = d
    /\ inflight[x].arg = which /\ inflight[x].pc = "done" /\ inflight[x].ret = 200})

\* each counter equals the number of increment calls that succeeded, and
\* approved_chunks does not exceed total_chunks
CountersMatchCalls ==
  \A d \in DocIds :
    /\ documents[d].approved_chunks = Incremented(d, "approve")
    /\ documents[d].rejected_chunks = Incremented(d, "reject")
    /\ documents[d].approved_chunks <= documents[d].total_chunks

\* an increment of approved_chunks that runs when approved_chunks equals
\* total_chunks is refused by valid_chunks and leaves the documents as they were
RefusedChangesNothing ==
  \A x \in RaceSlots :
    ( /\ inflight[x].pc = "increment" /\ inflight'[x].pc # "increment"
      /\ inflight[x].arg = "approve"
      /\ documents[inflight[x].doc].approved_chunks = documents[inflight[x].doc].total_chunks )
    => /\ inflight'[x].pc = "done" /\ inflight'[x].ret = 500
       /\ last'.ret2 = "valid_chunks"
       /\ documents' = documents

\* C29: the increment functions are atomic per call: the counter has grown by
\* the number of calls that succeeded, whatever their interleaving; a call that
\* would raise approved_chunks above total_chunks is refused by valid_chunks
\* and changes nothing; approved_chunks <= total_chunks in every state.
C29_IncrementsAtomicAndBounded ==
  []CountersMatchCalls /\ [][RefusedChangesNothing]_vars

\* two increment calls for one document, in progress at the same time, have
\* both succeeded and the counter stands at 2
C29_Witness ==
  \E s, t \in RaceSlots :
    /\ s # t
    /\ inflight[s].kind = "rpc" /\ inflight[t].kind = "rpc"
    /\ inflight[s].arg = "approve" /\ inflight[t].arg = "approve"
    /\ inflight[s].pc = "done" /\ inflight[t].pc = "done"
    /\ inflight[s].ret = 200 /\ inflight[t].ret = 200
    /\ inflight[s].startedAt < inflight[t].startedAt
    /\ inflight[t].startedAt < inflight[s].doneAt
    /\ documents[inflight[s].doc].approved_chunks = 2

\* signIn has returned and the listener's runs have finished
AuthAtRest == auth.signIn.pc = "returned" /\ ListenerAtRest

\* the credentials were accepted and the profile of the identity is inactive,
\* or there is none: it could be neither fetched nor created
InactiveOrMissing ==
  /\ auth.listener.pc # "none"
  /\ \A r \in RowsOf(profiles, SignInId) : ~r.is_active

====
